---------------------------- MODULE Spec2Model ----------------------------
(***************************************************************************)
(* Delivery subsystem of the telemetry pipeline: the thread-safe           *)
(* DataQueue (DataQueue.c), the Sender orchestrator with its drain and     *)
(* replay threads (Sender.c) and the offline spool (OfflineQueue.c), and   *)
(* the record serializer that feeds it (LineProtocol.c).                   *)
(*                                                                         *)
(* Records are abstract tokens 1, 2, ...; a file is a sequence of lines,   *)
(* each line a record, BLANK standing for an empty line.  Every pthread    *)
(* critical section is one action (the mutex is a variable, so contention  *)
(* and condition-variable waits are explicit).                             *)
(***************************************************************************)
EXTENDS Naturals, Integers, Sequences, FiniteSets, TLC

VARIABLES
    pc,          \* thread -> control point
    arg,         \* thread -> the record the thread is handling (or NULL)
    ret,         \* thread -> value returned by its last data_queue_dequeue
    calls,       \* thread -> number of calls made (submits, replays, harness calls)
    qHead,       \* DataQueue: the linked list head..tail, as a sequence
    qShutdown,   \* DataQueue.shutdown
    qFreed,      \* the DataQueue has been passed to data_queue_destroy
    mutex,       \* DataQueue.mutex: owning thread, or NOBODY
    waiters,     \* threads blocked in pthread_cond_wait on DataQueue.cond
    is_running,  \* SenderContext.is_running
    ctxFreed,    \* the SenderContext has been freed
    ctxRet,      \* what sender_create returned: "pending", "ctx" or "null"
    logFile,     \* the spool file g_log_file_path: [ex, ln]
    tmpFile,     \* its sibling g_temp_log_file_path: [ex, ln]
    tick,        \* offline_processor_thread_function: the loop counter i
    rdPos,       \* offline_queue_process: lines of infile consumed by fgets
    batch,       \* offline_queue_process: line_batch[0..line_count-1]
    anyFailed,   \* offline_queue_process: any_batch_failed
    enqLog,      \* history: records linked into the queue, in link order
    deqLog,      \* history: records handed out by dequeue, in order
    discarded,   \* history: records freed by data_queue_destroy
    allocFailed, \* history: records dropped by enqueue on allocation failure
    attempts,    \* history: records passed to send_line_protocol, in call order
    lastOut,     \* outcome of the drain thread's send for the record in hand
    spoolAdds,   \* history: successful offline_queue_add appends, [by, rec]
    openFailed,  \* history: records offline_queue_add could not append
    accepted,    \* history: records of a transmission reported successful
    fallbacks,   \* history: records sender_submit routed to the spool
    batchLog,    \* history: process_batch calls, [lines, ok, called]
    uafLost,     \* history: records enqueued on a destroyed queue
    spool0,      \* history: the spool file as the run found it
    queuedAtDestroy, \* history: the queue's records when sender_destroy was called
    builder,     \* the LineProtocolBuilder: buffer, capacity, position and flags
    lpCall,      \* the last LineProtocol call: its arguments and what it returned
    passed       \* history: the values the calls that returned LP_SUCCESS were given

qvars == <<qHead, qShutdown, qFreed, mutex, waiters>>
tvars == <<pc, arg, ret, calls>>
svars == <<is_running, ctxFreed, ctxRet>>
fvars == <<logFile, tmpFile>>
rvars == <<tick, rdPos, batch, anyFailed>>
hvars == <<enqLog, deqLog, discarded, allocFailed>>
bvars == <<builder, lpCall, passed>>
gvars == <<attempts, lastOut, spoolAdds, openFailed, accepted, fallbacks, batchLog, uafLost,
          spool0, bvars, queuedAtDestroy>>
nvars == <<tvars, qvars, svars, fvars, rvars, hvars, attempts, lastOut, spoolAdds,
          openFailed, accepted, fallbacks, batchLog, uafLost, spool0, queuedAtDestroy>>
others == <<svars, fvars, rvars, gvars>>
vars == <<tvars, qvars, svars, fvars, rvars, hvars, gvars>>

NULL == 0
NOBODY == "nobody"
NoFile == [ex |-> FALSE, ln |-> <<>>]

\* ---- bounds of the queue harness ----
MaxEnq == 2
MaxDeq == 2
MaxShutdown == 2

Producers == {"p1"}
Consumers == {"c1", "c2"}
Closers == {"s1"}
QueueThreads == Producers \cup Consumers \cup Closers

(***************************************************************************)
(* DataQueue.c                                                             *)
(***************************************************************************)

\* data_queue_enqueue, lines 82-88: the new node becomes the tail.
EnqueueLinkHead(head, data) == <<data>> \o head
EnqueueLink(head, data) == Append(head, data)

\* data_queue_dequeue, line 105: the wait loop's condition.
DequeueMustWaitIgnoringShutdown(head, shutdown) == head = <<>>
DequeueMustWait(head, shutdown) == head = <<>> /\ ~shutdown

\* data_queue_dequeue, line 110: the no-more-data test.
DequeueNoMoreDataOnShutdown(head, shutdown) == shutdown
DequeueNoMoreData(head, shutdown) == shutdown /\ head = <<>>

\* pthread_cond_signal (line 90): one of the blocked threads is released.
SignalAll(ws, w) == {}
SignalOne(ws, w) == ws \ {w}

\* pthread_cond_broadcast (line 138): every blocked thread is released.
ShutdownWakeOne(ws) == IF ws = {} THEN {} ELSE ws \ {CHOOSE w \in ws : TRUE}
ShutdownWake(ws) == {}

\* data_queue_enqueue, lines 67-78: malloc of the node and strdup of the data;
\* on failure the record is dropped (perror) and the function returns.
EnqAlloc(t, ok) ==
    /\ pc[t] = "enq_alloc"
    /\ pc' = [pc EXCEPT ![t] = IF ok THEN "enq_lock" ELSE "idle"]
    /\ allocFailed' = IF ok THEN allocFailed ELSE allocFailed \cup {arg[t]}
    /\ arg' = [arg EXCEPT ![t] = IF ok THEN @ ELSE NULL]
    /\ UNCHANGED <<ret, calls, qvars, enqLog, deqLog, discarded, others>>

\* data_queue_enqueue, line 81: pthread_mutex_lock.
EnqLock(t) ==
    /\ pc[t] = "enq_lock"
    /\ ~qFreed
    /\ mutex = NOBODY
    /\ mutex' = t
    /\ pc' = [pc EXCEPT ![t] = "enq_link"]
    /\ UNCHANGED <<arg, ret, calls, qHead, qShutdown, qFreed, waiters, hvars, others>>

\* data_queue_enqueue, lines 82-92: link at the tail, signal, unlock, return.
EnqLink(t) ==
    /\ pc[t] = "enq_link"
    /\ ~qFreed
    /\ mutex = t
    /\ qHead' = EnqueueLink(qHead, arg[t])
    /\ enqLog' = Append(enqLog, arg[t])
    /\ \/ waiters = {} /\ UNCHANGED waiters
       \/ \E w \in waiters : waiters' = SignalOne(waiters, w)
    /\ mutex' = NOBODY
    /\ pc' = [pc EXCEPT ![t] = "idle"]
    /\ arg' = [arg EXCEPT ![t] = NULL]
    /\ UNCHANGED <<ret, calls, qShutdown, qFreed, deqLog, discarded, allocFailed, others>>

\* data_queue_dequeue, line 103: pthread_mutex_lock.
DqLock(t) ==
    /\ pc[t] = "dq_lock"
    /\ ~qFreed
    /\ mutex = NOBODY
    /\ mutex' = t
    /\ pc' = [pc EXCEPT ![t] = "dq_check"]
    /\ UNCHANGED <<arg, ret, calls, qHead, qShutdown, qFreed, waiters, hvars, others>>

\* data_queue_dequeue, lines 105-107: the wait loop.  pthread_cond_wait
\* releases the mutex and blocks in one atomic step.
DqCheck(t) ==
    /\ pc[t] = "dq_check"
    /\ mutex = t
    /\ IF DequeueMustWait(qHead, qShutdown)
       THEN /\ waiters' = waiters \cup {t}
            /\ mutex' = NOBODY
            /\ pc' = [pc EXCEPT ![t] = "dq_wait"]
       ELSE /\ pc' = [pc EXCEPT ![t] = "dq_take"]
            /\ UNCHANGED <<waiters, mutex>>
    /\ UNCHANGED <<arg, ret, calls, qHead, qShutdown, qFreed, hvars, others>>

\* pthread_cond_wait may return without a signal (POSIX spurious wakeup).
DqSpurious(t) ==
    /\ pc[t] = "dq_wait"
    /\ t \in waiters
    /\ waiters' = waiters \ {t}
    /\ UNCHANGED <<tvars, qHead, qShutdown, qFreed, mutex, hvars, others>>

\* pthread_cond_wait, released: re-acquires the mutex, back to the loop test.
DqWoken(t) ==
    /\ pc[t] = "dq_wait"
    /\ t \notin waiters
    /\ mutex = NOBODY
    /\ mutex' = t
    /\ pc' = [pc EXCEPT ![t] = "dq_check"]
    /\ UNCHANGED <<arg, ret, calls, qHead, qShutdown, qFreed, waiters, hvars, others>>

\* data_queue_dequeue, lines 110-125: return NULL on shutdown with an empty
\* list, otherwise unlink and return the head; unlock either way.
DqTake(t) ==
    /\ pc[t] = "dq_take"
    /\ mutex = t
    /\ IF DequeueNoMoreData(qHead, qShutdown)
       THEN /\ ret' = [ret EXCEPT ![t] = NULL]
            /\ UNCHANGED <<qHead, deqLog>>
       ELSE /\ ret' = [ret EXCEPT ![t] = Head(qHead)]
            /\ qHead' = Tail(qHead)
            /\ deqLog' = Append(deqLog, Head(qHead))
    /\ mutex' = NOBODY
    /\ pc' = [pc EXCEPT ![t] = "dq_ret"]
    /\ UNCHANGED <<arg, calls, qShutdown, qFreed, waiters, enqLog, discarded, allocFailed, others>>

\* data_queue_shutdown, line 135: pthread_mutex_lock.
ShLock(t) ==
    /\ pc[t] = "sh_lock"
    /\ ~qFreed
    /\ mutex = NOBODY
    /\ mutex' = t
    /\ pc' = [pc EXCEPT ![t] = "sh_set"]
    /\ UNCHANGED <<arg, ret, calls, qHead, qShutdown, qFreed, waiters, hvars, others>>

\* data_queue_shutdown, lines 136-139: set the flag, broadcast, unlock.
ShSet(t) ==
    /\ pc[t] = "sh_set"
    /\ mutex = t
    /\ qShutdown' = TRUE
    /\ waiters' = ShutdownWake(waiters)
    /\ mutex' = NOBODY
    /\ pc' = [pc EXCEPT ![t] = "sh_ret"]
    /\ UNCHANGED <<arg, ret, calls, qHead, qFreed, hvars, others>>

(***************************************************************************)
(* OfflineQueue.c                                                          *)
(***************************************************************************)

\* MAX_BATCH_SIZE (5000 in OfflineQueue.c line 8), scaled down.
MAX_BATCH_SIZE == 2
\* how often one thread may run offline_queue_process
MaxReplays == 1

BLANK == -1

\* Outcomes of one send_http_post call (Sender.c lines 275-311):
\*   init_fail        curl_easy_init or malloc failed, nothing was transmitted
\*   transport_error  curl_easy_perform returned an error code
\*   http_error       the transfer completed, the server answered non-2xx
\*   ok               the transfer completed, the server answered 2xx
SendOutcomes == {"init_fail", "transport_error", "http_error", "ok"}

\* send_http_post, lines 300-310: success is (result == CURLE_OK); the HTTP
\* status of the response is never read.
SendHttpPostChecksStatus(outcome) == outcome = "ok"
SendHttpPost(outcome) == outcome \in {"http_error", "ok"}

\* offline_queue_add, lines 25-33: fopen(path, "a"), fprintf("%s\n"), fclose;
\* when fopen fails the record is dropped (perror).  openOk is fopen's result.
OfflineQueueAddTwice(t, rec, openOk) ==
    IF openOk
    THEN /\ logFile' = [ex |-> TRUE, ln |-> logFile.ln \o <<rec, rec>>]
         /\ spoolAdds' = spoolAdds \o <<[by |-> t, rec |-> rec], [by |-> t, rec |-> rec]>>
         /\ UNCHANGED openFailed
    ELSE /\ openFailed' = openFailed \cup {rec}
         /\ UNCHANGED <<logFile, spoolAdds>>
OfflineQueueAdd(t, rec, openOk) ==
    IF openOk
    THEN /\ logFile' = [ex |-> TRUE, ln |-> Append(logFile.ln, rec)]
         /\ spoolAdds' = Append(spoolAdds, [by |-> t, rec |-> rec])
         /\ UNCHANGED openFailed
    ELSE /\ openFailed' = openFailed \cup {rec}
         /\ UNCHANGED <<logFile, spoolAdds>>

\* process_batch, lines 37-104: the batch is concatenated and gzipped; if an
\* allocation or deflate fails (internalOk false) it returns false without
\* calling send_func, otherwise it returns what send_func returns.
ProcessBatchIgnoresOwnFailure(internalOk, outcome) == SendHttpPost(outcome)
ProcessBatch(internalOk, outcome) == internalOk /\ SendHttpPost(outcome)

\* offline_queue_process, lines 153-158 / 167-172: a failed batch's lines are
\* written to the temp file, a sent batch's lines are dropped.
TmpAfterBatchKeepsAll(tmp, lines, success) == [tmp EXCEPT !.ln = @ \o lines]
TmpAfterBatchPrepends(tmp, lines, success) ==
    IF success THEN tmp ELSE [tmp EXCEPT !.ln = lines \o @]
TmpAfterBatch(tmp, lines, success) ==
    IF success THEN tmp ELSE [tmp EXCEPT !.ln = @ \o lines]

\* offline_queue_process, lines 107-117: fopen(path, "r") fails when the file
\* is missing (or unreadable: openOk false); an empty file is left alone.
ProcOpenProceedsOnEmpty(file, openOk) == file.ex /\ openOk
ProcOpenProceeds(file, openOk) == file.ex /\ openOk /\ file.ln # <<>>
ProcOpen(t, openOk) ==
    /\ pc[t] = "p_open"
    /\ pc' = [pc EXCEPT ![t] = IF ProcOpenProceeds(logFile, openOk)
                                THEN "p_tmp" ELSE "p_done"]
    /\ rdPos' = 0
    /\ UNCHANGED <<arg, ret, calls, qvars, svars, fvars, tick, batch, anyFailed,
                   hvars, gvars>>

\* lines 121-122: fopen(tmp, "w") creates or truncates the temp file; on
\* failure the call is abandoned.
TmpOpenFailedNever(openOk) == FALSE
TmpOpenFailed(openOk) == ~openOk
ProcOpenTmp(t, openOk) ==
    /\ pc[t] = "p_tmp"
    /\ tmpFile' = IF openOk THEN [ex |-> TRUE, ln |-> <<>>] ELSE tmpFile
    /\ pc' = [pc EXCEPT ![t] = IF TmpOpenFailed(openOk) THEN "p_abandon" ELSE "p_read"]
    /\ UNCHANGED <<arg, ret, calls, qvars, svars, logFile, rvars, hvars, gvars>>

\* lines 123-125: perror, fclose(infile), return: nothing is read or sent
ProcAbandon(t) ==
    /\ pc[t] = "p_abandon"
    /\ pc' = [pc EXCEPT ![t] = "p_done"]
    /\ UNCHANGED <<arg, ret, calls, qvars, svars, fvars, rvars, hvars, gvars>>

\* lines 133-150: one fgets.  A blank line is skipped; the malloc of the line
\* copy may fail (allocOk false), which sets any_batch_failed and leaves the
\* loop; otherwise the line joins the batch.
LineIsBlankNever(line) == FALSE
LineIsBlank(line) == line = BLANK
ProcRead(t, allocOk) ==
    /\ pc[t] = "p_read"
    /\ IF rdPos >= Len(logFile.ln)
       THEN /\ pc' = [pc EXCEPT ![t] = "p_rest"]
            /\ UNCHANGED <<rdPos, batch, anyFailed, allocFailed>>
       ELSE /\ rdPos' = rdPos + 1
            /\ IF LineIsBlank(logFile.ln[rdPos + 1])
               THEN UNCHANGED <<pc, batch, anyFailed, allocFailed>>
               ELSE IF ~allocOk
               THEN /\ anyFailed' = TRUE
                    /\ allocFailed' = allocFailed \cup {logFile.ln[rdPos + 1]}
                    /\ pc' = [pc EXCEPT ![t] = "p_rest"]
                    /\ UNCHANGED batch
               ELSE /\ batch' = Append(batch, logFile.ln[rdPos + 1])
                    /\ pc' = [pc EXCEPT ![t] =
                                IF Len(batch') = MAX_BATCH_SIZE THEN "p_batch" ELSE "p_read"]
                    /\ UNCHANGED <<anyFailed, allocFailed>>
    /\ UNCHANGED <<arg, ret, calls, qvars, svars, fvars, tick, enqLog, deqLog,
                   discarded, gvars>>

\* the effect of one process_batch call on a non-empty batch and of the code
\* around it (lines 152-160 and 166-173)
BatchStep(internalOk, outcome) ==
    LET success == ProcessBatch(internalOk, outcome) IN
    /\ anyFailed' = (anyFailed \/ ~success)
    /\ tmpFile' = TmpAfterBatch(tmpFile, batch, success)
    /\ batch' = <<>>
    /\ batchLog' = Append(batchLog, [lines |-> batch, ok |-> success,
                                     called |-> internalOk])
    /\ accepted' = IF success THEN accepted \cup {batch[i] : i \in 1..Len(batch)}
                   ELSE accepted

\* lines 151-161: the batch is full.
ProcBatch(t, internalOk, outcome) ==
    /\ pc[t] = "p_batch"
    /\ BatchStep(internalOk, outcome)
    /\ pc' = [pc EXCEPT ![t] = "p_read"]
    /\ UNCHANGED <<arg, ret, calls, qvars, svars, logFile, tick, rdPos, hvars,
                   attempts, lastOut, spoolAdds, openFailed, fallbacks, uafLost, spool0, bvars,
                   queuedAtDestroy>>

\* lines 164-177: the last, partial batch, then both files are closed.
ProcRest(t, internalOk, outcome) ==
    /\ pc[t] = "p_rest"
    /\ IF Len(batch) > 0
       THEN BatchStep(internalOk, outcome)
       ELSE UNCHANGED <<anyFailed, tmpFile, batch, batchLog, accepted>>
    /\ pc' = [pc EXCEPT ![t] = "p_remove"]
    /\ UNCHANGED <<arg, ret, calls, qvars, svars, logFile, tick, rdPos, hvars,
                   attempts, lastOut, spoolAdds, openFailed, fallbacks, uafLost, spool0, bvars,
                   queuedAtDestroy>>

\* line 182 / line 187: remove(g_log_file_path).
ProcRemove(t) ==
    /\ pc[t] = "p_remove"
    /\ logFile' = NoFile
    /\ pc' = [pc EXCEPT ![t] = IF anyFailed THEN "p_rename" ELSE "p_rmtmp"]
    /\ UNCHANGED <<arg, ret, calls, qvars, svars, tmpFile, rvars, hvars, gvars>>

\* line 183: rename(g_temp_log_file_path, g_log_file_path).
ProcRename(t) ==
    /\ pc[t] = "p_rename"
    /\ logFile' = tmpFile
    /\ tmpFile' = NoFile
    /\ pc' = [pc EXCEPT ![t] = "p_done"]
    /\ rdPos' = 0
    /\ anyFailed' = FALSE
    /\ UNCHANGED <<arg, ret, calls, qvars, svars, tick, batch, hvars, gvars>>

\* line 188: remove(g_temp_log_file_path).
ProcRemoveTmpKeepsFile(t) ==
    /\ pc[t] = "p_rmtmp"
    /\ pc' = [pc EXCEPT ![t] = "p_done"]
    /\ rdPos' = 0
    /\ UNCHANGED <<arg, ret, calls, qvars, svars, fvars, tick, batch, anyFailed,
                   hvars, gvars>>
ProcRemoveTmp(t) ==
    /\ pc[t] = "p_rmtmp"
    /\ tmpFile' = NoFile
    /\ pc' = [pc EXCEPT ![t] = "p_done"]
    /\ rdPos' = 0
    /\ UNCHANGED <<arg, ret, calls, qvars, svars, logFile, tick, batch, anyFailed,
                   hvars, gvars>>

\* the steps of one offline_queue_process call
ProcRun(t) ==
    \/ \E openOk \in BOOLEAN : ProcOpen(t, openOk)
    \/ \E openOk \in BOOLEAN : ProcOpenTmp(t, openOk)
    \/ ProcAbandon(t)
    \/ \E allocOk \in BOOLEAN : ProcRead(t, allocOk)
    \/ \E internalOk \in BOOLEAN, outcome \in SendOutcomes : ProcBatch(t, internalOk, outcome)
    \/ \E internalOk \in BOOLEAN, outcome \in SendOutcomes : ProcRest(t, internalOk, outcome)
    \/ ProcRemove(t)
    \/ ProcRename(t)
    \/ ProcRemoveTmp(t)

(***************************************************************************)
(* Sender.c                                                                *)
(***************************************************************************)

\* OFFLINE_QUEUE_PROCESS_INTERVAL_S (60 in Sender.c line 18), scaled down.
OFFLINE_QUEUE_PROCESS_INTERVAL_S == 1
\* how many records the producer submits
MaxSubmit == 2

SenderThreads == {"main", "prod", "drain", "replay"}

\* pthread_join(thread) returns once the thread function has returned.
JoinReturnsAtOnce(t) == TRUE
JoinReturns(t) == pc[t] = "done"

\* sender_thread_function, line 193: the loop runs while is_running is set.
DrainLoopCondUntilDrained(running, head) == running \/ head # <<>>
DrainLoopCond(running, head) == running

\* data_queue_destroy, lines 44-57: the nodes still linked are freed.
DataQueueDestroy ==
    /\ discarded' = discarded \o qHead
    /\ qHead' = <<>>
    /\ qFreed' = TRUE

\* sender_create_from_yaml, lines 131-136: pthread_create of the drain thread;
\* on failure the queue and the context are released and NULL is returned.
CreateDrainThread(created) ==
    /\ pc["main"] = "create_t1"
    /\ IF created
       THEN /\ pc' = [pc EXCEPT !["main"] = "create_t2", !["drain"] = "d_top"]
            /\ UNCHANGED <<qHead, qFreed, discarded, ctxFreed, ctxRet>>
       ELSE /\ DataQueueDestroy
            /\ ctxFreed' = TRUE
            /\ ctxRet' = "null"
            /\ pc' = [pc EXCEPT !["main"] = "app"]
    /\ UNCHANGED <<arg, ret, calls, qShutdown, mutex, waiters, is_running, fvars,
                   rvars, enqLog, deqLog, allocFailed, gvars>>

\* line 140 (line 76 of sender_create_from_env): context->is_running = false
\* before data_queue_shutdown on the failure path
RunningAfterCreateFailureKept == TRUE
RunningAfterCreateFailure == FALSE

\* lines 138-155: pthread_create of the replay thread; on success the context
\* is returned, on failure is_running is cleared and the drain thread stopped.
CreateReplayThread(created) ==
    /\ pc["main"] = "create_t2"
    /\ IF created
       THEN /\ pc' = [pc EXCEPT !["main"] = "app", !["replay"] = "r_top"]
            /\ ctxRet' = "ctx"
            /\ UNCHANGED is_running
       ELSE /\ is_running' = RunningAfterCreateFailure
            /\ pc' = [pc EXCEPT !["main"] = "sh_lock"]
            /\ UNCHANGED ctxRet
    /\ UNCHANGED <<arg, ret, calls, qvars, ctxFreed, fvars, rvars, hvars, gvars>>

\* line 143: pthread_join of the drain thread on the failure path.
CreateFailJoin ==
    /\ pc["main"] = "sh_ret"
    /\ ctxRet = "pending"
    /\ JoinReturns("drain")
    /\ pc' = [pc EXCEPT !["main"] = "cf_free"]
    /\ UNCHANGED <<arg, ret, calls, qvars, svars, fvars, rvars, hvars, gvars>>

\* lines 144-146: data_queue_destroy, free(context), return NULL.
CreateFailFree ==
    /\ pc["main"] = "cf_free"
    /\ DataQueueDestroy
    /\ ctxFreed' = TRUE
    /\ ctxRet' = "null"
    /\ pc' = [pc EXCEPT !["main"] = "app"]
    /\ UNCHANGED <<arg, ret, calls, qShutdown, mutex, waiters, is_running, fvars,
                   rvars, enqLog, deqLog, allocFailed, gvars>>

\* sender_destroy, lines 158-166: returns at once on a NULL or stopped
\* context; otherwise clears is_running and calls data_queue_shutdown.
DestroyCall ==
    /\ pc["main"] = "app"
    /\ IF ctxRet = "null" \/ ~is_running
       THEN /\ pc' = [pc EXCEPT !["main"] = "finished"]
            /\ UNCHANGED <<is_running, queuedAtDestroy>>
       ELSE /\ is_running' = FALSE
            /\ queuedAtDestroy' = qHead
            /\ pc' = [pc EXCEPT !["main"] = "sh_lock"]
    /\ UNCHANGED <<arg, ret, calls, qvars, ctxFreed, ctxRet, fvars, rvars, hvars,
                   attempts, lastOut, spoolAdds, openFailed, accepted, fallbacks,
                   batchLog, uafLost, spool0, bvars>>

\* line 169: pthread_join(sender_thread_id).
DestroyJoinDrain ==
    /\ pc["main"] = "sh_ret"
    /\ ctxRet = "ctx"
    /\ JoinReturns("drain")
    /\ pc' = [pc EXCEPT !["main"] = "ds_join2"]
    /\ UNCHANGED <<arg, ret, calls, qvars, svars, fvars, rvars, hvars, gvars>>

\* line 170: pthread_join(offline_processor_thread_id).
DestroyJoinReplay ==
    /\ pc["main"] = "ds_join2"
    /\ JoinReturns("replay")
    /\ pc' = [pc EXCEPT !["main"] = "ds_free"]
    /\ UNCHANGED <<arg, ret, calls, qvars, svars, fvars, rvars, hvars, gvars>>

\* lines 173-174: data_queue_destroy, free(context).
DestroyFree ==
    /\ pc["main"] = "ds_free"
    /\ DataQueueDestroy
    /\ ctxFreed' = TRUE
    /\ pc' = [pc EXCEPT !["main"] = "finished"]
    /\ UNCHANGED <<arg, ret, calls, qShutdown, mutex, waiters, is_running, ctxRet,
                   fvars, rvars, enqLog, deqLog, allocFailed, gvars>>

\* sender_submit, line 179: if (!context || !context->is_running).
SubmitFallsBackOnNullOnly(ctx, running) == ctx = "null"
SubmitFallsBack(ctx, running) == ctx = "null" \/ ~running

\* sender_submit, lines 178-185, called by a producer with the pointer that
\* sender_create returned, while that context is still allocated (or NULL):
\* the test of line 179 routes the record to the spool or to the queue.
\* fallbacks records the calls made while the orchestrator was not running.
SubmitCall(t) ==
    /\ pc[t] = "idle"
    /\ calls[t] < MaxSubmit
    /\ ctxRet = "null" \/ (ctxRet = "ctx" /\ ~ctxFreed)
    /\ calls' = [calls EXCEPT ![t] = @ + 1]
    /\ arg' = [arg EXCEPT ![t] = calls[t] + 1]
    /\ pc' = [pc EXCEPT ![t] = IF SubmitFallsBack(ctxRet, is_running)
                                THEN "sub_add" ELSE "enq_alloc"]
    /\ fallbacks' = IF ctxRet = "null" \/ ~is_running
                    THEN fallbacks \cup {calls[t] + 1} ELSE fallbacks
    /\ UNCHANGED <<ret, qvars, svars, fvars, rvars, hvars, attempts, lastOut,
                   spoolAdds, openFailed, accepted, batchLog, uafLost, spool0, bvars,
                   queuedAtDestroy>>

\* line 181: offline_queue_add(line_protocol), then return.
SubmitAdd(t, openOk) ==
    /\ pc[t] = "sub_add"
    /\ OfflineQueueAdd(t, arg[t], openOk)
    /\ pc' = [pc EXCEPT ![t] = "idle"]
    /\ arg' = [arg EXCEPT ![t] = NULL]
    /\ UNCHANGED <<ret, calls, qvars, svars, tmpFile, rvars, hvars, attempts,
                   lastOut, accepted, fallbacks, batchLog, uafLost, spool0, bvars,
                   queuedAtDestroy>>

\* line 184 when sender_destroy has meanwhile destroyed the queue: the mutex
\* and the list are freed memory.  The record cannot reach the drain thread;
\* the call either returns or never does (crash, or a hang on the dead mutex).
SubmitUseAfterFree(t, returns) ==
    /\ pc[t] \in {"enq_lock", "enq_link"}
    /\ qFreed
    /\ uafLost' = uafLost \cup {arg[t]}
    /\ pc' = [pc EXCEPT ![t] = IF returns THEN "idle" ELSE "crashed"]
    /\ arg' = [arg EXCEPT ![t] = NULL]
    /\ UNCHANGED <<ret, calls, qvars, svars, fvars, rvars, hvars, attempts,
                   lastOut, spoolAdds, openFailed, accepted, fallbacks, batchLog, spool0, bvars,
                   queuedAtDestroy>>

\* sender_thread_function, lines 193-194: the loop test, then dequeue.
DrainTop ==
    /\ pc["drain"] = "d_top"
    /\ pc' = [pc EXCEPT !["drain"] =
                IF DrainLoopCond(is_running, qHead) THEN "dq_lock" ELSE "done"]
    /\ lastOut' = "none"
    /\ UNCHANGED <<arg, ret, calls, qvars, svars, fvars, rvars, hvars, attempts,
                   spoolAdds, openFailed, accepted, fallbacks, batchLog, uafLost, spool0, bvars,
                   queuedAtDestroy>>

\* lines 195-198: NULL ends the loop when is_running is clear.
DrainGot ==
    /\ pc["drain"] = "dq_ret"
    /\ IF ret["drain"] = NULL
       THEN /\ pc' = [pc EXCEPT !["drain"] = IF ~is_running THEN "done" ELSE "d_top"]
            /\ UNCHANGED arg
       ELSE /\ pc' = [pc EXCEPT !["drain"] = "d_send"]
            /\ arg' = [arg EXCEPT !["drain"] = ret["drain"]]
    /\ ret' = [ret EXCEPT !["drain"] = NULL]
    /\ UNCHANGED <<calls, qvars, svars, fvars, rvars, hvars, gvars>>

\* line 200: send_line_protocol(context, data_to_send), one send_http_post;
\* on success the record is freed (line 205).
DrainSend(outcome) ==
    /\ pc["drain"] = "d_send"
    /\ attempts' = Append(attempts, arg["drain"])
    /\ lastOut' = outcome
    /\ IF SendHttpPost(outcome)
       THEN /\ accepted' = accepted \cup {arg["drain"]}
            /\ pc' = [pc EXCEPT !["drain"] = "d_top"]
            /\ arg' = [arg EXCEPT !["drain"] = NULL]
       ELSE /\ UNCHANGED <<accepted, arg>>
            /\ pc' = [pc EXCEPT !["drain"] = "d_add"]
    /\ UNCHANGED <<ret, calls, qvars, svars, fvars, rvars, hvars, spoolAdds,
                   openFailed, fallbacks, batchLog, uafLost, spool0, bvars,
                   queuedAtDestroy>>

\* lines 201-205: offline_queue_add(data_to_send), free, next iteration.
DrainAdd(openOk) ==
    /\ pc["drain"] = "d_add"
    /\ OfflineQueueAdd("drain", arg["drain"], openOk)
    /\ pc' = [pc EXCEPT !["drain"] = "d_top"]
    /\ arg' = [arg EXCEPT !["drain"] = NULL]
    /\ UNCHANGED <<ret, calls, qvars, svars, tmpFile, rvars, hvars, attempts,
                   lastOut, accepted, fallbacks, batchLog, uafLost, spool0, bvars,
                   queuedAtDestroy>>

\* offline_processor_thread_function, line 216: the outer loop test.
ReplayTop ==
    /\ pc["replay"] = "r_top"
    /\ pc' = [pc EXCEPT !["replay"] = IF is_running THEN "r_tick" ELSE "done"]
    /\ tick' = 0
    /\ UNCHANGED <<arg, ret, calls, qvars, svars, fvars, rdPos, batch, anyFailed,
                   hvars, gvars>>

\* lines 217-219: one test of the inner loop and, if it passes, one sleep(1).
TickLoopCondIgnoresFlag(i, running) == i < OFFLINE_QUEUE_PROCESS_INTERVAL_S
TickLoopCond(i, running) == i < OFFLINE_QUEUE_PROCESS_INTERVAL_S /\ running
ReplayTick ==
    /\ pc["replay"] = "r_tick"
    /\ IF TickLoopCond(tick, is_running)
       THEN /\ tick' = tick + 1
            /\ UNCHANGED pc
       ELSE /\ pc' = [pc EXCEPT !["replay"] = "r_after"]
            /\ UNCHANGED tick
    /\ UNCHANGED <<arg, ret, calls, qvars, svars, fvars, rdPos, batch, anyFailed,
                   hvars, gvars>>

\* lines 221-223: replay the spool if still running.
ReplayAfter ==
    /\ pc["replay"] = "r_after"
    /\ IF is_running
       THEN /\ calls["replay"] < MaxReplays
            /\ calls' = [calls EXCEPT !["replay"] = @ + 1]
            /\ pc' = [pc EXCEPT !["replay"] = "p_open"]
       ELSE /\ pc' = [pc EXCEPT !["replay"] = "r_top"]
            /\ UNCHANGED calls
    /\ tick' = 0
    /\ UNCHANGED <<arg, ret, qvars, svars, fvars, rdPos, batch, anyFailed, hvars, gvars>>

\* offline_queue_process returned: next iteration of the outer loop.
ReplayLoop ==
    /\ pc["replay"] = "p_done"
    /\ pc' = [pc EXCEPT !["replay"] = "r_top"]
    /\ UNCHANGED <<arg, ret, calls, qvars, svars, fvars, rvars, hvars, gvars>>

(***************************************************************************)
(* LineProtocol.c                                                          *)
(*                                                                         *)
(* A string is a sequence of one-character strings; the builder's buffer   *)
(* is the string before its terminator, so position = Len(buffer).  A      *)
(* pointer result is NullPtr or Ptr(s).                                    *)
(***************************************************************************)

\* LineProtocol.h, lines 11-20: the error codes.
LP_SUCCESS == "LP_SUCCESS"
LP_ERROR_INVALID_PARAM == "LP_ERROR_INVALID_PARAM"
LP_ERROR_BUFFER_FULL == "LP_ERROR_BUFFER_FULL"
LP_ERROR_INVALID_STATE == "LP_ERROR_INVALID_STATE"
LP_ERROR_MEMORY_ALLOC == "LP_ERROR_MEMORY_ALLOC"
LP_ERROR_INVALID_MEASUREMENT == "LP_ERROR_INVALID_MEASUREMENT"
LP_ERROR_INVALID_TAG_KEY == "LP_ERROR_INVALID_TAG_KEY"
LP_ERROR_INVALID_FIELD_KEY == "LP_ERROR_INVALID_FIELD_KEY"

\* ---- bounds of the builder: the capacities of lines 10-12 and 148, scaled ----
LP_MIN_CAPACITY == 3
LP_MAX_CAPACITY == 24
LP_GROWTH_FACTOR == 2

NullPtr == [null |-> TRUE, str |-> <<>>]
Ptr(s) == [null |-> FALSE, str |-> s]

\* nothing passed in yet: the measurement, the tags, the fields and the timestamps
\* that successful calls were given since the last reset; late: a field or a
\* timestamp was accepted after a timestamp
NoPassed == [measurement |-> <<>>, tags |-> <<>>, fields |-> <<>>, timestamps |-> <<>>,
             late |-> FALSE]

\* no LineProtocol call has been made
NoCall == [op |-> "none", key |-> <<>>, value |-> <<>>, err |-> LP_SUCCESS,
           ptr |-> NullPtr, pos0 |-> 0]

\* isalnum in the "C" locale (the program never calls setlocale)
Digits == <<"0", "1", "2", "3", "4", "5", "6", "7", "8", "9">>
Letters == {"a", "b", "c", "d", "e", "f", "g", "h", "i", "j", "k", "l", "m",
            "n", "o", "p", "q", "r", "s", "t", "u", "v", "w", "x", "y", "z",
            "A", "B", "C", "D", "E", "F", "G", "H", "I", "J", "K", "L", "M",
            "N", "O", "P", "Q", "R", "S", "T", "U", "V", "W", "X", "Y", "Z"}
isalnum(c) == c \in Letters \/ \E d \in 1..10 : c = Digits[d]

\* a double: finite with the value n.0, an infinity of either sign, or NaN
Finite(n) == [nan |-> FALSE, inf |-> 0, n |-> n]
NaN == [nan |-> TRUE, inf |-> 0, n |-> 0]
PosInf == [nan |-> FALSE, inf |-> 1, n |-> 0]
NegInf == [nan |-> FALSE, inf |-> -1, n |-> 0]
isnan(v) == v.nan
isinf(v) == v.inf # 0

\* printf's %lld
RECURSIVE FormatNat(_)
FormatNat(n) == IF n < 10 THEN <<Digits[n + 1]>>
                ELSE FormatNat(n \div 10) \o <<Digits[(n % 10) + 1]>>
FormatInt(n) == IF n < 0 THEN <<"-">> \o FormatNat(0 - n) ELSE FormatNat(n)
\* printf's %.6f of a finite double
FormatDouble(v) == FormatInt(v.n) \o <<".", "0", "0", "0", "0", "0", "0">>
\* line 294
FormatBool(v) == IF v THEN <<"t", "r", "u", "e">> ELSE <<"f", "a", "l", "s", "e">>

\* escape_string, lines 36-59: the bytes a quote or a backslash is copied as
EscapeCharOnlyQuote(c) == IF c = "\"" THEN <<"\\", c>> ELSE <<c>>
EscapeChar(c) == IF c = "\"" \/ c = "\\" THEN <<"\\", c>> ELSE <<c>>
RECURSIVE escape_string(_)
escape_string(input) ==
    IF input = <<>> THEN <<>>
    ELSE EscapeChar(Head(input)) \o escape_string(Tail(input))

\* lp_is_valid_measurement_name, lines 371-385
lp_is_valid_measurement_name_AnyFirst(name) ==
    /\ name # <<>>
    /\ \A i \in 1..Len(name) : isalnum(name[i]) \/ name[i] \in {"_", "-", "."}

lp_is_valid_measurement_name(name) ==
    /\ name # <<>>
    /\ name[1] # "_"
    /\ \A i \in 1..Len(name) : isalnum(name[i]) \/ name[i] \in {"_", "-", "."}

\* lp_is_valid_tag_key, lines 387-398
lp_is_valid_tag_key_AsNames(key) ==
    /\ key # <<>>
    /\ \A i \in 1..Len(key) : isalnum(key[i]) \/ key[i] \in {"_", "-", "."}

lp_is_valid_tag_key(key) ==
    /\ key # <<>>
    /\ \A i \in 1..Len(key) : isalnum(key[i]) \/ key[i] = "_"

\* lp_is_valid_field_key, lines 400-402
lp_is_valid_field_key(key) == lp_is_valid_tag_key(key)

\* what a builder function hands back: its error code and the builder after it
Out(e, b) == [err |-> e, b |-> b]

\* ensure_capacity, lines 75-78: the doubling loop
RECURSIVE GrowTo(_, _)
GrowTo(new_capacity, required_capacity) ==
    IF new_capacity < required_capacity
    THEN GrowTo(new_capacity * LP_GROWTH_FACTOR, required_capacity)
    ELSE new_capacity

\* ensure_capacity, line 80: the grown capacity is refused
ExceedsMaxNever(new_capacity) == FALSE
ExceedsMax(new_capacity) == new_capacity > LP_MAX_CAPACITY

\* ensure_capacity, lines 65-92; reallocOk: realloc returns a buffer
ensure_capacity(b, needed_space, reallocOk) ==
    LET required_capacity == b.position + needed_space + 1
        new_capacity == GrowTo(b.capacity * LP_GROWTH_FACTOR, required_capacity)
    IN  IF required_capacity <= b.capacity THEN Out(LP_SUCCESS, b)
        ELSE IF ExceedsMax(new_capacity) THEN Out(LP_ERROR_BUFFER_FULL, b)
        ELSE IF ~reallocOk THEN Out(LP_ERROR_MEMORY_ALLOC, b)
        ELSE Out(LP_SUCCESS, [b EXCEPT !.capacity = new_capacity])

\* append_string (lines 95-107) and append_formatted (lines 110-143), text being
\* what vsnprintf produces: the text is copied at position, position advances
append_string(b, str, reallocOk) ==
    LET e == ensure_capacity(b, Len(str), reallocOk)
    IN  IF e.err # LP_SUCCESS THEN e
        ELSE Out(LP_SUCCESS, [e.b EXCEPT !.buffer = @ \o str,
                                         !.position = @ + Len(str)])

append_formatted(b, text, reallocOk) ==
    LET e == ensure_capacity(b, Len(text), reallocOk)
    IN  IF e.err # LP_SUCCESS THEN e
        ELSE Out(LP_SUCCESS, [e.b EXCEPT !.buffer = @ \o text,
                                         !.position = @ + Len(text)])

\* lp_builder_create, lines 147-165 (the builder it returns, allocations
\* succeeding); NoBuilder stands for its NULL
NoBuilder ==
    [buffer |-> <<>>, capacity |-> 0, position |-> 0, measurement_end |-> 0,
     tags_end |-> 0, fields_start |-> 0, has_measurement |-> FALSE,
     has_fields |-> FALSE, has_timestamp |-> FALSE, finalized |-> FALSE]

lp_builder_create(initial_capacity) ==
    LET c == IF initial_capacity < LP_MIN_CAPACITY THEN LP_MIN_CAPACITY
             ELSE initial_capacity
    IN  IF c > LP_MAX_CAPACITY THEN NoBuilder
        ELSE [NoBuilder EXCEPT !.capacity = c]

\* lp_builder_reset, lines 178-195
lp_builder_reset(b) ==
    [b EXCEPT !.buffer = <<>>, !.position = 0, !.measurement_end = 0,
              !.tags_end = 0, !.fields_start = 0, !.has_measurement = FALSE,
              !.has_fields = FALSE, !.has_timestamp = FALSE, !.finalized = FALSE]

\* lp_set_measurement, lines 197-213
lp_set_measurement(b, measurement, reallocOk) ==
    IF b.finalized THEN Out(LP_ERROR_INVALID_STATE, b)
    ELSE IF ~lp_is_valid_measurement_name(measurement)
    THEN Out(LP_ERROR_INVALID_MEASUREMENT, b)
    ELSE LET a == append_string(lp_builder_reset(b), measurement, reallocOk)
         IN  IF a.err # LP_SUCCESS THEN a
             ELSE Out(LP_SUCCESS, [a.b EXCEPT !.has_measurement = TRUE,
                                              !.measurement_end = a.b.position,
                                              !.tags_end = a.b.position])

\* lp_add_tag, lines 215-227
lp_add_tag_KeyFirst(b, key, value, reallocOk) ==
    IF b.finalized THEN Out(LP_ERROR_INVALID_STATE, b)
    ELSE IF ~b.has_measurement THEN Out(LP_ERROR_INVALID_STATE, b)
    ELSE IF ~lp_is_valid_tag_key(key) THEN Out(LP_ERROR_INVALID_TAG_KEY, b)
    ELSE IF b.has_fields THEN Out(LP_ERROR_INVALID_STATE, b)
    ELSE LET a == append_formatted(b, <<",">> \o key \o <<"=">> \o value, reallocOk)
         IN  IF a.err # LP_SUCCESS THEN a
             ELSE Out(LP_SUCCESS, [a.b EXCEPT !.tags_end = a.b.position])

lp_add_tag(b, key, value, reallocOk) ==
    IF b.finalized THEN Out(LP_ERROR_INVALID_STATE, b)
    ELSE IF ~b.has_measurement THEN Out(LP_ERROR_INVALID_STATE, b)
    ELSE IF b.has_fields THEN Out(LP_ERROR_INVALID_STATE, b)
    ELSE IF ~lp_is_valid_tag_key(key) THEN Out(LP_ERROR_INVALID_TAG_KEY, b)
    ELSE LET a == append_formatted(b, <<",">> \o key \o <<"=">> \o value, reallocOk)
         IN  IF a.err # LP_SUCCESS THEN a
             ELSE Out(LP_SUCCESS, [a.b EXCEPT !.tags_end = a.b.position])

\* lines 236, 254, 274, 293: the separator before a field
Separator(b) == IF b.has_fields THEN <<",">> ELSE <<" ">>

\* lp_add_field_double, line 234: the value is refused
DoubleRefusedNaNOnly(value) == isnan(value)
DoubleRefused(value) == isnan(value) \/ isinf(value)

\* lp_add_field_double, lines 229-246
lp_add_field_double(b, key, value, reallocOk) ==
    IF b.finalized THEN Out(LP_ERROR_INVALID_STATE, b)
    ELSE IF ~b.has_measurement THEN Out(LP_ERROR_INVALID_STATE, b)
    ELSE IF ~lp_is_valid_field_key(key) THEN Out(LP_ERROR_INVALID_FIELD_KEY, b)
    ELSE IF DoubleRefused(value) THEN Out(LP_ERROR_INVALID_PARAM, b)
    ELSE LET a == append_formatted(b, Separator(b) \o key \o <<"=">>
                                        \o FormatDouble(value), reallocOk)
         IN  IF a.err # LP_SUCCESS THEN a
             ELSE IF ~b.has_fields
             THEN Out(LP_SUCCESS, [a.b EXCEPT !.has_fields = TRUE,
                                    !.fields_start = a.b.position - Len(key) - 8])
             ELSE a

\* the tail the four lp_add_field_* share (lines 240-245, 258-262, 280-284,
\* 298-302) when no fields_start is kept: has_fields is set
FieldAdded(a) ==
    IF a.err # LP_SUCCESS THEN a
    ELSE Out(LP_SUCCESS, [a.b EXCEPT !.has_fields = TRUE])

\* lp_add_field_integer, lines 248-263
lp_add_field_integer(b, key, value, reallocOk) ==
    IF b.finalized THEN Out(LP_ERROR_INVALID_STATE, b)
    ELSE IF ~b.has_measurement THEN Out(LP_ERROR_INVALID_STATE, b)
    ELSE IF ~lp_is_valid_field_key(key) THEN Out(LP_ERROR_INVALID_FIELD_KEY, b)
    ELSE FieldAdded(append_formatted(b, Separator(b) \o key \o <<"=">>
                                          \o FormatInt(value) \o <<"i">>, reallocOk))

\* lp_add_field_string, lines 265-285; mallocOk: escape_string's malloc succeeds
lp_add_field_string(b, key, value, mallocOk, reallocOk) ==
    IF b.finalized THEN Out(LP_ERROR_INVALID_STATE, b)
    ELSE IF ~b.has_measurement THEN Out(LP_ERROR_INVALID_STATE, b)
    ELSE IF ~lp_is_valid_field_key(key) THEN Out(LP_ERROR_INVALID_FIELD_KEY, b)
    ELSE IF ~mallocOk THEN Out(LP_ERROR_MEMORY_ALLOC, b)
    ELSE FieldAdded(append_formatted(b, Separator(b) \o key \o <<"=", "\"">>
                                          \o escape_string(value) \o <<"\"">>,
                                     reallocOk))

\* lp_add_field_boolean, lines 287-303
lp_add_field_boolean(b, key, value, reallocOk) ==
    IF b.finalized THEN Out(LP_ERROR_INVALID_STATE, b)
    ELSE IF ~b.has_measurement THEN Out(LP_ERROR_INVALID_STATE, b)
    ELSE IF ~lp_is_valid_field_key(key) THEN Out(LP_ERROR_INVALID_FIELD_KEY, b)
    ELSE FieldAdded(append_formatted(b, Separator(b) \o key \o <<"=">>
                                          \o FormatBool(value), reallocOk))

\* lp_set_timestamp, line 325: the record is not ready for a timestamp
TimestampRefusedNever(b) == FALSE
TimestampRefused(b) == ~b.has_measurement \/ ~b.has_fields

\* lp_set_timestamp, lines 322-332
lp_set_timestamp(b, timestamp, reallocOk) ==
    IF b.finalized THEN Out(LP_ERROR_INVALID_STATE, b)
    ELSE IF TimestampRefused(b) THEN Out(LP_ERROR_INVALID_STATE, b)
    ELSE LET a == append_formatted(b, <<" ">> \o FormatInt(timestamp), reallocOk)
         IN  IF a.err # LP_SUCCESS THEN a
             ELSE Out(LP_SUCCESS, [a.b EXCEPT !.has_timestamp = TRUE])

\* lp_copy, line 344: the current time has to be added
CopyAddsTimestampAlways(b) == TRUE
CopyAddsTimestamp(b) == ~b.has_timestamp

\* lp_copy, line 350
CopyFinalizesNever(b) == b
CopyFinalizes(b) == [b EXCEPT !.finalized = TRUE]

\* lp_copy, lines 338-358, with lp_set_timestamp_now (334-336); now: what
\* time(NULL) returns; mallocOk: the malloc of the copy succeeds.  The result
\* is [ptr, b].
lp_copy(b, now, reallocOk, mallocOk) ==
    IF ~b.has_measurement \/ ~b.has_fields THEN [ptr |-> NullPtr, b |-> b]
    ELSE LET t == IF CopyAddsTimestamp(b) THEN lp_set_timestamp(b, now, reallocOk)
                  ELSE Out(LP_SUCCESS, b)
             f == CopyFinalizes(t.b)
         IN  IF t.err # LP_SUCCESS THEN [ptr |-> NullPtr, b |-> t.b]
             ELSE IF ~mallocOk THEN [ptr |-> NullPtr, b |-> f]
             ELSE [ptr |-> Ptr(f.buffer), b |-> f]

\* lp_view, lines 360-363
lp_view(b) == Ptr(b.buffer)

(***************************************************************************)
(* The sender orchestrator: the application thread inside sender_create    *)
(* (queue created, spool path set, is_running set), a producer thread, and *)
(* the drain and replay threads once they are created.                     *)
(***************************************************************************)

Init ==
    /\ pc = [t \in SenderThreads |->
                IF t = "main" THEN "create_t1"
                ELSE IF t = "prod" THEN "idle" ELSE "absent"]
    /\ arg = [t \in SenderThreads |-> NULL]
    /\ ret = [t \in SenderThreads |-> NULL]
    /\ calls = [t \in SenderThreads |-> 0]
    /\ qHead = <<>>
    /\ qShutdown = FALSE
    /\ qFreed = FALSE
    /\ mutex = NOBODY
    /\ waiters = {}
    /\ is_running = TRUE
    /\ ctxFreed = FALSE
    /\ ctxRet = "pending"
    /\ logFile = NoFile
    /\ tmpFile = NoFile
    /\ tick = 0
    /\ rdPos = 0
    /\ batch = <<>>
    /\ anyFailed = FALSE
    /\ enqLog = <<>>
    /\ deqLog = <<>>
    /\ discarded = <<>>
    /\ allocFailed = {}
    /\ attempts = <<>>
    /\ lastOut = "none"
    /\ spoolAdds = <<>>
    /\ openFailed = {}
    /\ accepted = {}
    /\ fallbacks = {}
    /\ batchLog = <<>>
    /\ uafLost = {}
    /\ spool0 = NoFile
    /\ queuedAtDestroy = <<>>
    /\ builder = NoBuilder
    /\ lpCall = NoCall
    /\ passed = NoPassed

MainStep ==
    \/ \E created \in BOOLEAN : CreateDrainThread(created)
    \/ \E created \in BOOLEAN : CreateReplayThread(created)
    \/ CreateFailJoin
    \/ CreateFailFree
    \/ DestroyCall
    \/ ShLock("main")
    \/ ShSet("main")
    \/ DestroyJoinDrain
    \/ DestroyJoinReplay
    \/ DestroyFree

ProducerStep ==
    \/ SubmitCall("prod")
    \/ \E openOk \in BOOLEAN : SubmitAdd("prod", openOk)
    \/ \E ok \in BOOLEAN : EnqAlloc("prod", ok)
    \/ EnqLock("prod")
    \/ EnqLink("prod")
    \/ \E returns \in BOOLEAN : SubmitUseAfterFree("prod", returns)

DrainStep ==
    \/ DrainTop
    \/ DqLock("drain")
    \/ DqCheck("drain")
    \/ DqSpurious("drain")
    \/ DqWoken("drain")
    \/ DqTake("drain")
    \/ DrainGot
    \/ \E outcome \in SendOutcomes : DrainSend(outcome)
    \/ \E openOk \in BOOLEAN : DrainAdd(openOk)

ReplayStep ==
    \/ ReplayTop
    \/ ReplayTick
    \/ ReplayAfter
    \/ ProcRun("replay")
    \/ ReplayLoop

Next == MainStep \/ ProducerStep \/ DrainStep \/ ReplayStep

Spec == Init /\ [][Next]_vars

\* Scheduling: a thread that can take a step eventually takes one (each
\* transmission, callback and file operation returns), and a thread waiting
\* for the queue mutex gets it if it is released again and again.
SpecLive ==
    /\ Spec
    /\ WF_vars(MainStep)
    /\ WF_vars(ProducerStep)
    /\ WF_vars(DrainStep)
    /\ WF_vars(ReplayStep)
    /\ SF_vars(ShLock("main"))

(***************************************************************************)
(* Queue harness: one producer, two consumers and one closer call the      *)
(* DataQueue API directly, in any interleaving.                            *)
(***************************************************************************)

QInit ==
    /\ pc = [t \in QueueThreads |-> "idle"]
    /\ arg = [t \in QueueThreads |-> NULL]
    /\ ret = [t \in QueueThreads |-> NULL]
    /\ calls = [t \in QueueThreads |-> 0]
    /\ qHead = <<>>
    /\ qShutdown = FALSE
    /\ qFreed = FALSE
    /\ mutex = NOBODY
    /\ waiters = {}
    /\ enqLog = <<>>
    /\ deqLog = <<>>
    /\ discarded = <<>>
    /\ allocFailed = {}
    /\ is_running = FALSE
    /\ ctxFreed = FALSE
    /\ ctxRet = "null"
    /\ logFile = NoFile
    /\ tmpFile = NoFile
    /\ tick = 0
    /\ rdPos = 0
    /\ batch = <<>>
    /\ anyFailed = FALSE
    /\ attempts = <<>>
    /\ lastOut = "none"
    /\ spoolAdds = <<>>
    /\ openFailed = {}
    /\ accepted = {}
    /\ fallbacks = {}
    /\ batchLog = <<>>
    /\ uafLost = {}
    /\ spool0 = NoFile
    /\ queuedAtDestroy = <<>>
    /\ builder = NoBuilder
    /\ lpCall = NoCall
    /\ passed = NoPassed

\* the producer calls data_queue_enqueue(q, r) with the next record
QCallEnqueue(t) ==
    /\ pc[t] = "idle"
    /\ calls[t] < MaxEnq
    /\ calls' = [calls EXCEPT ![t] = @ + 1]
    /\ arg' = [arg EXCEPT ![t] = calls[t] + 1]
    /\ pc' = [pc EXCEPT ![t] = "enq_alloc"]
    /\ UNCHANGED <<ret, qvars, hvars, others>>

\* the producer has nothing more to enqueue
QProducerStop(t) ==
    /\ pc[t] = "idle"
    /\ pc' = [pc EXCEPT ![t] = "done"]
    /\ UNCHANGED <<arg, ret, calls, qvars, hvars, others>>

\* a consumer calls data_queue_dequeue(q)
QCallDequeue(t) ==
    /\ pc[t] \in {"idle", "dq_ret"}
    /\ calls[t] < MaxDeq
    /\ calls' = [calls EXCEPT ![t] = @ + 1]
    /\ pc' = [pc EXCEPT ![t] = "dq_lock"]
    /\ UNCHANGED <<arg, ret, qvars, hvars, others>>

\* the closer calls data_queue_shutdown(q)
QCallShutdown(t) ==
    /\ pc[t] \in {"idle", "sh_ret"}
    /\ calls[t] < MaxShutdown
    /\ calls' = [calls EXCEPT ![t] = @ + 1]
    /\ pc' = [pc EXCEPT ![t] = "sh_lock"]
    /\ UNCHANGED <<arg, ret, qvars, hvars, others>>

\* the steps a thread takes inside a DataQueue function once it has called it
QRun(t) ==
    \/ \E ok \in BOOLEAN : EnqAlloc(t, ok)
    \/ EnqLock(t)
    \/ EnqLink(t)
    \/ DqLock(t)
    \/ DqCheck(t)
    \/ DqWoken(t)
    \/ DqTake(t)
    \/ ShLock(t)
    \/ ShSet(t)

QNext ==
    \/ \E t \in Producers : QCallEnqueue(t) \/ QProducerStop(t)
    \/ \E t \in Consumers : QCallDequeue(t) \/ DqSpurious(t)
    \/ \E t \in Closers : QCallShutdown(t)
    \/ \E t \in QueueThreads : QRun(t)

QueueSpec == QInit /\ [][QNext]_vars

\* The scheduler lets every thread that is inside a queue function run.
QueueLive == QueueSpec /\ \A t \in QueueThreads : WF_vars(QRun(t))


(***************************************************************************)
(* Spool harness: one thread calls offline_queue_process (with the         *)
(* sender's callback) and offline_queue_add, one call after the other, on  *)
(* a spool file left by an earlier run.                                    *)
(***************************************************************************)

\* bounds of the spool harness
MaxInitLines == 5
MaxAdds == 1

\* a spool file of n lines holding the records 1, 2, ... in order, with
\* blank lines at the positions in blanks
InitSpool(n, blanks) ==
    [i \in 1..n |-> IF i \in blanks THEN BLANK
                    ELSE Cardinality({j \in 1..i : j \notin blanks})]

RInit ==
    /\ pc = [t \in {"h"} |-> "idle"]
    /\ arg = [t \in {"h"} |-> NULL]
    /\ ret = [t \in {"h"} |-> NULL]
    /\ calls = [t \in {"h"} |-> 0]
    /\ qHead = <<>>
    /\ qShutdown = FALSE
    /\ qFreed = FALSE
    /\ mutex = NOBODY
    /\ waiters = {}
    /\ is_running = FALSE
    /\ ctxFreed = FALSE
    /\ ctxRet = "null"
    /\ \/ spool0 = NoFile
       \/ \E n \in 0..MaxInitLines : \E blanks \in SUBSET (1..n) :
            spool0 = [ex |-> TRUE, ln |-> InitSpool(n, blanks)]
    /\ logFile = spool0
    /\ queuedAtDestroy = <<>>
    /\ builder = NoBuilder
    /\ lpCall = NoCall
    /\ passed = NoPassed
    /\ tmpFile = NoFile
    /\ tick = 0
    /\ rdPos = 0
    /\ batch = <<>>
    /\ anyFailed = FALSE
    /\ enqLog = <<>>
    /\ deqLog = <<>>
    /\ discarded = <<>>
    /\ allocFailed = {}
    /\ attempts = <<>>
    /\ lastOut = "none"
    /\ spoolAdds = <<>>
    /\ openFailed = {}
    /\ accepted = {}
    /\ fallbacks = {}
    /\ batchLog = <<>>
    /\ uafLost = {}

\* the harness calls offline_queue_process(send_compressed_batch_callback, ctx)
HCallProcess ==
    /\ pc["h"] = "idle"
    /\ calls["h"] < MaxReplays
    /\ calls' = [calls EXCEPT !["h"] = @ + 1]
    /\ pc' = [pc EXCEPT !["h"] = "p_open"]
    /\ UNCHANGED <<arg, ret, qvars, svars, fvars, rvars, hvars, gvars>>

HProcessReturn ==
    /\ pc["h"] = "p_done"
    /\ pc' = [pc EXCEPT !["h"] = "idle"]
    /\ UNCHANGED <<arg, ret, calls, qvars, svars, fvars, rvars, hvars, gvars>>

\* the harness calls offline_queue_add with a record not yet in the spool
HAdd(openOk) ==
    /\ pc["h"] = "idle"
    /\ Len(spoolAdds) + Cardinality(openFailed) < MaxAdds
    /\ OfflineQueueAdd("h", MaxInitLines + 1 + Len(spoolAdds) + Cardinality(openFailed),
                       openOk)
    /\ UNCHANGED <<tvars, qvars, svars, tmpFile, rvars, hvars, attempts, lastOut,
                   accepted, fallbacks, batchLog, uafLost, spool0, bvars,
                   queuedAtDestroy>>

RNext ==
    \/ HCallProcess
    \/ ProcRun("h")
    \/ HProcessReturn
    \/ \E openOk \in BOOLEAN : HAdd(openOk)

ReplaySpec == RInit /\ [][RNext]_vars

(***************************************************************************)
(* Builder harness: one caller makes LineProtocol calls on one builder,    *)
(* in any order and with any of the arguments below.  The functions do not *)
(* block and nothing else touches the builder, so a call is one step.      *)
(***************************************************************************)

\* the arguments the caller draws from
InitialCapacities == {LP_MIN_CAPACITY - 1, LP_MIN_CAPACITY, LP_MIN_CAPACITY + 2}
LongName == [i \in 1..LP_MAX_CAPACITY |-> "m"]
MeasurementNames == {<<"m">>, <<"m", ".">>, <<>>, <<"_", "m">>, <<"m", " ">>, LongName}
Keys == {<<"k">>, <<>>, <<"k", "-">>}
TagValues == {<<"v">>, <<" ">>}
DoubleValues == {NaN, PosInf, NegInf, Finite(1)}
IntegerValues == {2}
StringValues == {<<"s">>, <<"\"">>, <<"\\">>}
Timestamps == {5}
Clock == {7}
\* the caller appends tags, fields and timestamps to records of up to
\* MaxAppendAt characters; longer ones it only views, copies or resets
MaxAppendAt == 13

\* the state of the delivery subsystem while only the serializer is exercised
DeliveryIdle ==
    /\ pc = [t \in {"h"} |-> "idle"]
    /\ arg = [t \in {"h"} |-> NULL]
    /\ ret = [t \in {"h"} |-> NULL]
    /\ calls = [t \in {"h"} |-> 0]
    /\ qHead = <<>>
    /\ qShutdown = FALSE
    /\ qFreed = FALSE
    /\ mutex = NOBODY
    /\ waiters = {}
    /\ is_running = FALSE
    /\ ctxFreed = FALSE
    /\ ctxRet = "null"
    /\ logFile = NoFile
    /\ tmpFile = NoFile
    /\ tick = 0
    /\ rdPos = 0
    /\ batch = <<>>
    /\ anyFailed = FALSE
    /\ enqLog = <<>>
    /\ deqLog = <<>>
    /\ discarded = <<>>
    /\ allocFailed = {}
    /\ attempts = <<>>
    /\ lastOut = "none"
    /\ spoolAdds = <<>>
    /\ openFailed = {}
    /\ accepted = {}
    /\ fallbacks = {}
    /\ batchLog = <<>>
    /\ uafLost = {}
    /\ spool0 = NoFile
    /\ queuedAtDestroy = <<>>

\* a builder returned by lp_builder_create, and no call made on it yet
BInit ==
    /\ DeliveryIdle
    /\ \E c \in InitialCapacities : builder = lp_builder_create(c)
    /\ builder # NoBuilder
    /\ lpCall = NoCall
    /\ passed = NoPassed

\* the record of a call made on the builder as it is now
Made(op, key, value, err, ptr) ==
    [op |-> op, key |-> key, value |-> value, err |-> err, ptr |-> ptr,
     pos0 |-> builder.position]

\* the history after a call that left the builder as b: a builder the call
\* emptied holds nothing of what was passed in
Kept(b) == IF b.position = 0 /\ builder.position > 0 THEN NoPassed ELSE passed

WithField(kind, key, value) ==
    [passed EXCEPT !.fields = Append(@, [kind |-> kind, key |-> key, value |-> value]),
                   !.late = @ \/ builder.has_timestamp]

WithTimestamp(timestamp) ==
    [passed EXCEPT !.timestamps = Append(@, timestamp),
                   !.late = @ \/ builder.has_timestamp]

CallBuilderReset ==
    LET out == Out(LP_SUCCESS, lp_builder_reset(builder))
    IN  /\ builder' = out.b
        /\ lpCall' = Made("lp_builder_reset", <<>>, <<>>, out.err, NullPtr)
        /\ passed' = NoPassed
        /\ UNCHANGED nvars

CallSetMeasurement(name, reallocOk) ==
    LET out == lp_set_measurement(builder, name, reallocOk)
    IN  /\ builder' = out.b
        /\ lpCall' = Made("lp_set_measurement", <<>>, name, out.err, NullPtr)
        /\ passed' = IF out.err = LP_SUCCESS
                     THEN [NoPassed EXCEPT !.measurement = name]
                     ELSE Kept(out.b)
        /\ UNCHANGED nvars

CallAddTag(key, value, reallocOk) ==
    LET out == lp_add_tag(builder, key, value, reallocOk)
    IN  /\ builder.position <= MaxAppendAt
        /\ builder' = out.b
        /\ lpCall' = Made("lp_add_tag", key, value, out.err, NullPtr)
        /\ passed' = IF out.err = LP_SUCCESS
                     THEN [passed EXCEPT !.tags = Append(@, <<key, value>>)]
                     ELSE Kept(out.b)
        /\ UNCHANGED nvars

CallAddFieldDouble(key, value, reallocOk) ==
    LET out == lp_add_field_double(builder, key, value, reallocOk)
    IN  /\ builder.position <= MaxAppendAt
        /\ builder' = out.b
        /\ lpCall' = Made("lp_add_field_double", key, value, out.err, NullPtr)
        /\ passed' = IF out.err = LP_SUCCESS THEN WithField("double", key, value) ELSE Kept(out.b)
        /\ UNCHANGED nvars

CallAddFieldInteger(key, value, reallocOk) ==
    LET out == lp_add_field_integer(builder, key, value, reallocOk)
    IN  /\ builder.position <= MaxAppendAt
        /\ builder' = out.b
        /\ lpCall' = Made("lp_add_field_integer", key, value, out.err, NullPtr)
        /\ passed' = IF out.err = LP_SUCCESS THEN WithField("integer", key, value) ELSE Kept(out.b)
        /\ UNCHANGED nvars

CallAddFieldString(key, value, mallocOk, reallocOk) ==
    LET out == lp_add_field_string(builder, key, value, mallocOk, reallocOk)
    IN  /\ builder.position <= MaxAppendAt
        /\ builder' = out.b
        /\ lpCall' = Made("lp_add_field_string", key, value, out.err, NullPtr)
        /\ passed' = IF out.err = LP_SUCCESS THEN WithField("string", key, value) ELSE Kept(out.b)
        /\ UNCHANGED nvars

CallAddFieldBoolean(key, value, reallocOk) ==
    LET out == lp_add_field_boolean(builder, key, value, reallocOk)
    IN  /\ builder.position <= MaxAppendAt
        /\ builder' = out.b
        /\ lpCall' = Made("lp_add_field_boolean", key, value, out.err, NullPtr)
        /\ passed' = IF out.err = LP_SUCCESS THEN WithField("boolean", key, value) ELSE Kept(out.b)
        /\ UNCHANGED nvars

CallSetTimestamp(timestamp, reallocOk) ==
    LET out == lp_set_timestamp(builder, timestamp, reallocOk)
    IN  /\ builder.position <= MaxAppendAt
        /\ builder' = out.b
        /\ lpCall' = Made("lp_set_timestamp", <<>>, timestamp, out.err, NullPtr)
        /\ passed' = IF out.err = LP_SUCCESS THEN WithTimestamp(timestamp) ELSE Kept(out.b)
        /\ UNCHANGED nvars

CallCopy(now, reallocOk, mallocOk) ==
    LET c == lp_copy(builder, now, reallocOk, mallocOk)
    IN  /\ builder' = c.b
        /\ lpCall' = Made("lp_copy", <<>>, now, LP_SUCCESS, c.ptr)
        /\ passed' = IF c.b.position > builder.position THEN WithTimestamp(now) ELSE Kept(c.b)
        /\ UNCHANGED nvars

CallView ==
    /\ lpCall' = Made("lp_view", <<>>, <<>>, LP_SUCCESS, lp_view(builder))
    /\ UNCHANGED <<builder, passed, nvars>>

BNext ==
    \/ CallBuilderReset
    \/ \E name \in MeasurementNames, reallocOk \in BOOLEAN :
            CallSetMeasurement(name, reallocOk)
    \/ \E key \in Keys, value \in TagValues, reallocOk \in BOOLEAN :
            CallAddTag(key, value, reallocOk)
    \/ \E key \in Keys, value \in DoubleValues, reallocOk \in BOOLEAN :
            CallAddFieldDouble(key, value, reallocOk)
    \/ \E key \in Keys, value \in IntegerValues, reallocOk \in BOOLEAN :
            CallAddFieldInteger(key, value, reallocOk)
    \/ \E key \in Keys, value \in StringValues, mallocOk \in BOOLEAN, reallocOk \in BOOLEAN :
            CallAddFieldString(key, value, mallocOk, reallocOk)
    \/ \E key \in Keys, value \in BOOLEAN, reallocOk \in BOOLEAN :
            CallAddFieldBoolean(key, value, reallocOk)
    \/ \E timestamp \in Timestamps, reallocOk \in BOOLEAN :
            CallSetTimestamp(timestamp, reallocOk)
    \/ \E now \in Clock, reallocOk \in BOOLEAN, mallocOk \in BOOLEAN :
            CallCopy(now, reallocOk, mallocOk)
    \/ CallView

BuilderSpec == BInit /\ [][BNext]_vars

(***************************************************************************)
(* escape_string on its own: every string of up to MaxStrLen characters    *)
(* over a plain character, the quote and the backslash is escaped once.    *)
(***************************************************************************)

MaxStrLen == 4
EscChars == {"s", "\"", "\\"}
EscInputs == UNION {[1..n -> EscChars] : n \in 0..MaxStrLen}

EInit ==
    /\ DeliveryIdle
    /\ builder = NoBuilder
    /\ \E s \in EscInputs : lpCall = [NoCall EXCEPT !.op = "input", !.value = s]
    /\ passed = NoPassed

\* char* escaped = escape_string(value); mallocOk: line 45's malloc succeeds
CallEscapeString(mallocOk) ==
    /\ lpCall.op = "input"
    /\ lpCall' = [lpCall EXCEPT !.op = "escape_string",
                     !.ptr = IF mallocOk THEN Ptr(escape_string(lpCall.value))
                             ELSE NullPtr]
    /\ UNCHANGED <<builder, passed, nvars>>

ENext == \E mallocOk \in BOOLEAN : CallEscapeString(mallocOk)

EscapeSpec == EInit /\ [][ENext]_vars

(***************************************************************************)
(* The spool file character by character: offline_queue_add writes a       *)
(* record and a newline, and the read loop of offline_queue_process reads  *)
(* the file back with fgets into a buffer of MAX_LINE_LENGTH characters.   *)
(***************************************************************************)

\* MAX_LINE_LENGTH (2048 in OfflineQueue.c line 8), scaled down; it is smaller
\* than LP_MAX_CAPACITY as 2048 is smaller than 1 MiB
MAX_LINE_LENGTH == 4
\* the longest record written, and how many records the file holds
MaxRecordLen == 5
MaxFileRecords == 2

\* offline_queue_add, line 31: fprintf(file, "%s\n", line_protocol)
offline_queue_add(bytes, line_protocol) == bytes \o line_protocol \o <<"\n">>

\* fgets(line, size, infile), line 133: the characters it stores: at most
\* size - 1 of them, up to and including the first newline
fgets(bytes, size) ==
    LET n == IF Len(bytes) < size - 1 THEN Len(bytes) ELSE size - 1
        nl == {i \in 1..n : bytes[i] = "\n"}
    IN  IF nl = {} THEN SubSeq(bytes, 1, n)
        ELSE SubSeq(bytes, 1, CHOOSE i \in nl : \A j \in nl : i <= j)

\* line 135: line[strcspn(line, "\r\n")] = 0
StripNewline(line) ==
    LET e == {i \in 1..Len(line) : line[i] \in {"\r", "\n"}}
    IN  IF e = {} THEN line
        ELSE SubSeq(line, 1, (CHOOSE i \in e : \A j \in e : i <= j) - 1)

\* the read loop, lines 133-149, all allocations succeeding: the lines it puts
\* into line_batch, in order (each with the newline line 146 gives it)
RECURSIVE ReadLoop(_)
ReadLoop(bytes) ==
    IF bytes = <<>> THEN <<>>
    ELSE LET got == fgets(bytes, MAX_LINE_LENGTH)
             rest == SubSeq(bytes, Len(got) + 1, Len(bytes))
             line == StripNewline(got)
         IN  IF line = <<>> THEN ReadLoop(rest)
             ELSE <<line \o <<"\n">>>> \o ReadLoop(rest)

\* the file after the records have been appended to an empty spool, in order
RECURSIVE Appended(_)
Appended(records) ==
    IF records = <<>> THEN <<>>
    ELSE offline_queue_add(Appended(SubSeq(records, 1, Len(records) - 1)),
                           records[Len(records)])

\* the records written: up to MaxFileRecords of them, of 1..MaxRecordLen
\* characters
RecordChars == {"x", "y"}
SpoolRecords == UNION {[1..n -> RecordChars] : n \in 1..MaxRecordLen}
SpoolInputs == UNION {[1..k -> SpoolRecords] : k \in 1..MaxFileRecords}

LInit ==
    /\ DeliveryIdle
    /\ builder = NoBuilder
    /\ \E records \in SpoolInputs : lpCall = [NoCall EXCEPT !.op = "input", !.value = records]
    /\ passed = NoPassed

\* the records are appended and the file is read back by one replay
CallAddThenProcess ==
    /\ lpCall.op = "input"
    /\ lpCall' = [lpCall EXCEPT !.op = "offline_queue_process",
                     !.ptr = Ptr(ReadLoop(Appended(lpCall.value)))]
    /\ UNCHANGED <<builder, passed, nvars>>

LNext == CallAddThenProcess

SpoolLineSpec == LInit /\ [][LNext]_vars

(***************************************************************************)
(* DataPublisher: data_publisher_publish builds one record from the        *)
(* channels and the GPS fix with the publisher's own builder and hands it  *)
(* to sender_submit.  The names are scaled to one character: measurement   *)
(* "measurements" is "m", tag source=instrumentacao is s=i, the channel    *)
(* ids are single letters and the GPS keys are t, g, h and v.              *)
(***************************************************************************)

\* LP_DEFAULT_CAPACITY (1024 = 16 * 64 in LineProtocol.c line 10), scaled
LP_DEFAULT_CAPACITY == LP_MIN_CAPACITY * 4
\* NUM_CHANNELS (4 in CalibrationHelper.h), scaled down
NUM_CHANNELS == 1
ChannelIds == <<"a", "b", "c", "d">>

\* what channel_get_calibrated_value returns, and the values of a GPS fix
ChannelValues == {Finite(1), NaN}
GpsValues == {Finite(0), NaN, PosInf}
ChannelInputs == [1..NUM_CHANNELS -> [is_active : BOOLEAN, value : ChannelValues]]
GpsInputs == [latitude : GpsValues, longitude : {Finite(0), NaN},
              altitude : {Finite(0), NaN}, speed : {Finite(0), NaN}]

isfinite(v) == ~isnan(v) /\ ~isinf(v)

\* add_channel_fields, lines 37-50, from channel i on: [ok, err, b]
RECURSIVE add_channel_fields(_, _, _, _)
add_channel_fields(b, channels, i, reallocOk) ==
    IF i > NUM_CHANNELS THEN [ok |-> TRUE, err |-> LP_SUCCESS, b |-> b]
    ELSE IF ~channels[i].is_active THEN add_channel_fields(b, channels, i + 1, reallocOk)
    ELSE LET f == lp_add_field_double(b, <<ChannelIds[i]>>, channels[i].value, reallocOk)
         IN  IF f.err # LP_SUCCESS THEN [ok |-> FALSE, err |-> f.err, b |-> f.b]
             ELSE add_channel_fields(f.b, channels, i + 1, reallocOk)

\* one step of add_gps_fields: the field is added when the value is finite,
\* and what lp_add_field_double returns is not looked at
GpsField(b, key, value, reallocOk) ==
    IF isfinite(value) THEN lp_add_field_double(b, <<key>>, value, reallocOk).b ELSE b

\* add_gps_fields, lines 52-65
add_gps_fields(b, gps_data, reallocOk) ==
    LET b1 == GpsField(b, "t", gps_data.latitude, reallocOk)
        b2 == GpsField(b1, "g", gps_data.longitude, reallocOk)
        b3 == GpsField(b2, "h", gps_data.altitude, reallocOk)
    IN  GpsField(b3, "v", gps_data.speed, reallocOk)

\* data_publisher_publish, lines 67-95: [ret, err, submitted, b]; submitted is
\* the string passed to sender_submit (NullPtr: sender_submit is not called);
\* reallocOk: the reallocs of this call succeed; now: the clock
data_publisher_publish(b, channels, gps_data, now, reallocOk) ==
    LET m == lp_set_measurement(lp_builder_reset(b), <<"m">>, reallocOk)
        t == lp_add_tag(m.b, <<"s">>, <<"i">>, reallocOk)
        c == add_channel_fields(t.b, channels, 1, reallocOk)
        g == add_gps_fields(c.b, gps_data, reallocOk)
        s == lp_set_timestamp(g, now, reallocOk)
    IN  IF m.err # LP_SUCCESS
        THEN [ret |-> FALSE, err |-> m.err, submitted |-> NullPtr, b |-> m.b]
        ELSE IF t.err # LP_SUCCESS
        THEN [ret |-> FALSE, err |-> t.err, submitted |-> NullPtr, b |-> t.b]
        ELSE IF ~c.ok
        THEN [ret |-> FALSE, err |-> c.err, submitted |-> NullPtr, b |-> c.b]
        ELSE [ret |-> TRUE, err |-> LP_SUCCESS, submitted |-> lp_view(s.b), b |-> s.b]

\* data_publisher_create, lines 12-26: the publisher's builder
PInit ==
    /\ DeliveryIdle
    /\ builder = lp_builder_create(LP_DEFAULT_CAPACITY)
    /\ lpCall = NoCall
    /\ passed = NoPassed

\* one data_publisher_publish call
Publish(channels, gps_data, now, reallocOk) ==
    LET out == data_publisher_publish(builder, channels, gps_data, now, reallocOk)
    IN  /\ builder' = out.b
        /\ lpCall' = Made("data_publisher_publish", <<>>,
                          [channels |-> channels, gps_data |-> gps_data,
                           reallocOk |-> reallocOk],
                          out.err, out.submitted)
        /\ UNCHANGED <<passed, nvars>>

PNext ==
    \E channels \in ChannelInputs, gps_data \in GpsInputs, now \in Clock,
       reallocOk \in BOOLEAN : Publish(channels, gps_data, now, reallocOk)

PublisherSpec == PInit /\ [][PNext]_vars

(***************************************************************************)
(* Properties of the DataQueue                                             *)
(***************************************************************************)

InDequeue(t) == pc[t] \in {"dq_lock", "dq_check", "dq_wait", "dq_take"}
NoMoreEnqueue == \A p \in Producers : pc[p] = "done"

\* C3: queue shutdown liveness.  A consumer that is inside dequeue() (blocked
\* in the wait, woken, or just entering) once shutdown() has completed on an
\* empty queue, with no enqueue to come, eventually returns NULL.
C3_ShutdownReleasesConsumers ==
    \A c \in Consumers :
        (InDequeue(c) /\ qShutdown /\ qHead = <<>> /\ NoMoreEnqueue)
            ~> (pc[c] = "dq_ret" /\ ret[c] = NULL)

\* C3 witness: after shutdown() on a queue that never held a record, one
\* consumer has returned NULL from its only call while the other, which was
\* blocked in the wait, has been released and is about to re-acquire the mutex.
C3_Witness ==
    /\ qShutdown /\ enqLog = <<>> /\ NoMoreEnqueue
    /\ pc["c1"] = "dq_ret" /\ ret["c1"] = NULL /\ calls["c1"] = 1
    /\ pc["c2"] = "dq_wait" /\ "c2" \notin waiters

\* C4: dequeue() returns NULL exactly when, at its return (mutex held), the
\* queue is shut down and empty; otherwise it returns the oldest record, also
\* after shutdown; nothing is lost, duplicated or reordered on the way.
C4_NullOnlyWhenShutdownAndEmpty ==
    /\ [][\A c \in Consumers :
            (pc[c] = "dq_take" /\ pc'[c] = "dq_ret") =>
                /\ (ret'[c] = NULL) <=> (qShutdown /\ qHead = <<>>)
                /\ (ret'[c] # NULL) => (ret'[c] = Head(qHead) /\ qHead' = Tail(qHead))
         ]_vars
    /\ [](enqLog = deqLog \o qHead)

\* C4 witness: a record enqueued before shutdown was handed to a consumer that
\* called dequeue() after shutdown, and a later call returned NULL.
C4_Witness ==
    /\ qShutdown /\ qHead = <<>> /\ deqLog = <<1>>
    /\ pc["c1"] = "dq_ret" /\ ret["c1"] = 1
    /\ pc["c2"] = "dq_ret" /\ ret["c2"] = NULL /\ calls["c2"] = 1

(***************************************************************************)
(* Properties of the sender orchestrator                                   *)
(***************************************************************************)

Elems(s) == {s[i] : i \in 1..Len(s)}
IsPrefix(s, t) == Len(s) <= Len(t) /\ s = SubSeq(t, 1, Len(s))
Last(s) == s[Len(s)]
NoDup(s) == \A i, j \in 1..Len(s) : i # j => s[i] # s[j]
\* how often thread t appended record r to the spool
Count(t, r) == Cardinality({i \in 1..Len(spoolAdds) : spoolAdds[i] = [by |-> t, rec |-> r]})
Submitted == 1..calls["prod"]
Terminated(t) == pc[t] \in {"absent", "done"}
Quiescent ==
    /\ pc["main"] = "finished"
    /\ pc["prod"] \in {"idle", "crashed"}
    /\ Terminated("drain")
    /\ Terminated("replay")

\* C1 (as the spec states it): once the system is quiescent, with no
\* allocation failure and every fopen of the spool successful, each record
\* handed to sender_submit was accepted by a transmission or is a line of the
\* spool file.  Runs in which a submit reaches the queue after sender_destroy
\* freed it are left aside here: the statement fails without them.
C1_NoSilentDiscard ==
    (Quiescent /\ allocFailed = {} /\ openFailed = {} /\ uafLost = {}) =>
        \A r \in Submitted : r \in accepted \/ r \in Elems(logFile.ln)

\* C2: the queue hands the drain thread the producer's records in enqueue
\* order, each once: what was enqueued is what was dequeued followed by what
\* is still queued (followed by what data_queue_destroy freed), and the
\* transmission attempts follow the dequeues one for one, at most the record
\* just dequeued being still on its way to its attempt.
C2_QueueFifo ==
    /\ enqLog = deqLog \o qHead \o discarded
    /\ ~qFreed => discarded = <<>>
    /\ \A i, j \in 1..Len(enqLog) : i < j => enqLog[i] < enqLog[j]
    /\ NoDup(deqLog)
    /\ IsPrefix(attempts, deqLog)
    /\ Len(deqLog) - Len(attempts) <= 1
    /\ Len(deqLog) > Len(attempts) =>
          /\ pc["drain"] \in {"dq_ret", "d_send"}
          /\ Last(deqLog) \in {ret["drain"], arg["drain"]}

\* C2 witness: two records were enqueued and both were attempted, in order.
C2_Witness ==
    /\ enqLog = <<1, 2>>
    /\ deqLog = <<1, 2>>
    /\ attempts = <<1, 2>>

\* the drain thread has finished routing the record of its last attempt
DrainRouted == pc["drain"] = "d_top" /\ lastOut # "none"
AttemptOf(r) == Cardinality({i \in 1..Len(attempts) : attempts[i] = r})

\* C5 (as the spec states it): one attempt per dequeued record; a failed
\* attempt is followed by exactly one verbatim append of the record to the
\* spool, a successful one by none.
C5_DrainRouting ==
    /\ [](\A r \in Elems(deqLog) : AttemptOf(r) <= 1)
    /\ [](pc["drain"] \in {"d_top", "d_add", "done"} => attempts = deqLog)
    /\ [](DrainRouted =>
            Count("drain", Last(attempts)) = IF SendHttpPost(lastOut) THEN 0 ELSE 1)
    /\ [][(pc["drain"] = "d_add" /\ pc'["drain"] # "d_add") =>
            logFile'.ln = Append(logFile.ln, arg["drain"])]_vars

\* C5 (amended): as above, but the failed record is appended only if the
\* fopen of the spool file succeeds; otherwise nothing is written and the
\* record is dropped.
C5_DrainRoutingIfSpoolOpens ==
    /\ [](\A r \in Elems(deqLog) : AttemptOf(r) <= 1)
    /\ [](pc["drain"] \in {"d_top", "d_add", "done"} => attempts = deqLog)
    /\ [](DrainRouted =>
            Count("drain", Last(attempts)) =
                IF SendHttpPost(lastOut) \/ Last(attempts) \in openFailed THEN 0 ELSE 1)
    /\ [][(pc["drain"] = "d_add" /\ pc'["drain"] # "d_add") =>
            IF arg["drain"] \in openFailed'
            THEN logFile' = logFile
            ELSE logFile' = [ex |-> TRUE, ln |-> Append(logFile.ln, arg["drain"])]]_vars
    /\ [][(pc["drain"] = "d_send" /\ pc'["drain"] # "d_send") =>
            /\ logFile' = logFile /\ spoolAdds' = spoolAdds
            /\ pc'["drain"] = IF SendHttpPost(lastOut') THEN "d_top" ELSE "d_add"]_vars

\* C5 witness: the only attempt on record 1 failed at transport level and the
\* drain thread appended it, once, to the spool.
C5_Witness ==
    /\ DrainRouted /\ lastOut = "transport_error"
    /\ attempts = <<1>>
    /\ spoolAdds = <<[by |-> "drain", rec |-> 1]>>
    /\ logFile = [ex |-> TRUE, ln |-> <<1>>]

\* C6 (as the spec states it): a record whose transmission was answered with
\* a non-2xx status is on its way to the spool or has been handed to
\* offline_queue_add by the drain thread.
C6_Non2xxIsFailure ==
    lastOut = "http_error" =>
        \/ pc["drain"] = "d_add"
        \/ Count("drain", Last(attempts)) = 1
        \/ Last(attempts) \in openFailed

\* C7 (as the spec states it): a record submitted while the orchestrator is
\* not running is appended to the spool, once, and never enters the queue.
C7_FallbackToSpool ==
    /\ [](\A r \in fallbacks :
            /\ r \notin Elems(enqLog) /\ r \notin uafLost
            /\ Count("prod", r) = IF pc["prod"] = "sub_add" /\ arg["prod"] = r THEN 0 ELSE 1)
    /\ [][(pc["prod"] = "sub_add" /\ pc'["prod"] # "sub_add") =>
            /\ logFile'.ln = Append(logFile.ln, arg["prod"])
            /\ qHead' = qHead]_vars

\* C7 (amended): as above, provided the fopen of the spool file succeeds;
\* if it fails nothing is written, and the queue is unchanged either way.
C7_FallbackToSpoolIfSpoolOpens ==
    /\ [](\A r \in fallbacks :
            /\ r \notin Elems(enqLog) /\ r \notin uafLost
            /\ Count("prod", r) =
                 IF (pc["prod"] = "sub_add" /\ arg["prod"] = r) \/ r \in openFailed
                 THEN 0 ELSE 1)
    /\ [][(pc["prod"] = "sub_add" /\ pc'["prod"] # "sub_add") =>
            /\ IF arg["prod"] \in openFailed'
               THEN logFile' = logFile
               ELSE logFile' = [ex |-> TRUE, ln |-> Append(logFile.ln, arg["prod"])]
            /\ qHead' = qHead]_vars

\* C7 witness: record 1 was submitted after sender_destroy had cleared the
\* running flag of a live context, and went to the spool, not to the queue.
C7_Witness ==
    /\ ctxRet = "ctx" /\ ~is_running
    /\ fallbacks = {1} /\ pc["prod"] = "idle"
    /\ spoolAdds = <<[by |-> "prod", rec |-> 1]>>
    /\ logFile = [ex |-> TRUE, ln |-> <<1>>]
    /\ enqLog = <<>>

\* C8: sender_destroy clears is_running, then shuts the queue down, then joins
\* the drain thread, then the replay thread, then destroys the queue and frees
\* the context; whenever the queue or the context is freed both threads have
\* terminated (or were never created).
C8_ShutdownOrdering ==
    /\ (qFreed \/ ctxFreed) => (Terminated("drain") /\ Terminated("replay"))
    /\ (ctxRet = "ctx" /\ qFreed) => (pc["drain"] = "done" /\ pc["replay"] = "done")
    /\ qFreed <=> ctxFreed
    /\ pc["main"] \in {"sh_lock", "sh_set", "sh_ret", "ds_join2", "ds_free", "cf_free"}
          => ~is_running /\ ~qFreed
    /\ pc["main"] \in {"sh_ret", "ds_join2", "ds_free", "cf_free"} => qShutdown
    /\ pc["main"] \in {"ds_join2", "ds_free", "cf_free"} => pc["drain"] = "done"
    /\ pc["main"] = "ds_free" => pc["replay"] = "done"
    /\ (pc["main"] = "finished" /\ ctxRet = "ctx") => (qFreed /\ ctxFreed)

\* C8 witness: sender_destroy has completed on a context whose drain thread
\* had dequeued a record and whose replay thread had run a replay.
C8_Witness ==
    /\ pc["main"] = "finished" /\ ctxRet = "ctx"
    /\ qFreed /\ ctxFreed
    /\ pc["drain"] = "done" /\ pc["replay"] = "done"
    /\ deqLog # <<>> /\ calls["replay"] > 0

\* C9 (as the spec states it): when sender_destroy has destroyed the queue,
\* every record that was queued when sender_destroy was called has had its
\* transmission attempt (and so was routed by the drain thread).
C9_ShutdownDrainsQueue ==
    (ctxRet = "ctx" /\ qFreed) =>
        \A r \in Elems(queuedAtDestroy) : r \in Elems(attempts)

(***************************************************************************)
(* Properties of the spool replay                                          *)
(***************************************************************************)

NonBlank(s) == SelectSeq(s, LAMBDA x : x # BLANK)
\* s cut into consecutive batches of k (the last one possibly shorter)
Cut(s, k) ==
    [i \in 1..((Len(s) + k - 1) \div k) |->
        SubSeq(s, (i - 1) * k + 1, IF i * k < Len(s) THEN i * k ELSE Len(s))]
BatchLines == [i \in 1..Len(batchLog) |-> batchLog[i].lines]
InFailedBatch(x) == \E i \in 1..Len(batchLog) : ~batchLog[i].ok /\ x \in Elems(batchLog[i].lines)
\* the call returned before it read a line: nothing was sent, nothing changed
ReplayAbandoned == batchLog = <<>> /\ logFile = spool0

\* C10 (as the spec states it): after one replay of a spool, its non-blank
\* lines were cut into consecutive batches of MAX_BATCH_SIZE, and the spool
\* holds exactly the lines of the batches that failed, in their original
\* order; a batch that was sent is not handed to the callback again.
C10_SpoolPartialFailure ==
    /\ (pc["h"] = "idle" /\ calls["h"] = 1 /\ spoolAdds = <<>> /\ openFailed = {}
            /\ ~ReplayAbandoned) =>
          /\ BatchLines = Cut(NonBlank(spool0.ln), MAX_BATCH_SIZE)
          /\ logFile.ln = SelectSeq(NonBlank(spool0.ln), InFailedBatch)
    /\ \A i, j \in 1..Len(batchLog) :
          (i < j /\ batchLog[i].ok) =>
              Elems(batchLog[i].lines) \cap Elems(batchLog[j].lines) = {}

AllBatchesOk == \A i \in 1..Len(batchLog) : batchLog[i].ok
\* the first replay of the run is returning
FirstReplayReturns == pc["h"] = "p_done" /\ calls["h"] = 1

C12_MissingOrEmptyIsNoOp ==
    [][(pc["h"] = "p_open" /\ pc'["h"] # "p_open"
            /\ (~logFile.ex \/ logFile.ln = <<>>)) =>
          /\ pc'["h"] = "p_done"
          /\ logFile' = logFile
          /\ tmpFile' = tmpFile
          /\ batchLog' = batchLog
          /\ accepted' = accepted]_vars

\* C12 witness: the replay of an existing, empty spool file has returned; the
\* file is still there and still empty, there is no temp file, no batch.
C12_Witness ==
    /\ FirstReplayReturns
    /\ spool0 = [ex |-> TRUE, ln |-> <<>>]
    /\ logFile = spool0
    /\ tmpFile = NoFile
    /\ batchLog = <<>>

\* C13 (as the spec states it): from the end of the read loop of a replay in
\* which a batch failed until the replay returns, the spool file exists and
\* holds the failed lines (those written to the temp file).
C13_AtomicReplace ==
    (pc["replay"] \in {"p_remove", "p_rename"} /\ ~AllBatchesOk) =>
        (logFile.ex /\ Elems(tmpFile.ln) \subseteq Elems(logFile.ln))

\* the replay thread is inside offline_queue_process with the spool file open
\* or about to be removed or replaced
ReplayHasSpoolOpen ==
    pc["replay"] \in {"p_tmp", "p_abandon", "p_read", "p_batch", "p_rest", "p_remove",
                      "p_rename", "p_rmtmp"}

\* C14 (as the spec states it): the drain thread never appends to the spool
\* file while the replay thread is in the middle of a replay.
C14_NoConcurrentSpoolAccess ==
    [][(pc["drain"] = "d_add" /\ spoolAdds' # spoolAdds) => ~ReplayHasSpoolOpen]_vars

\* the first replay of the run has left its read loop and processed its last
\* batch; the spool file is still the file it read
FirstReplayRead == pc["h"] = "p_remove" /\ calls["h"] = 1

RECURSIVE Flatten(_)
Flatten(ss) == IF ss = <<>> THEN <<>> ELSE Head(ss) \o Flatten(Tail(ss))

\* C15 (as the spec states it): a replay that started reading puts every
\* non-blank line of the file in exactly one batch and processes every batch
\* once, whatever failed on the way.  Even a line whose own copy could not be
\* allocated is left aside here: every other line is in exactly one batch.
C15_EveryLineBatchedOnce ==
    FirstReplayRead =>
        Flatten(BatchLines) = SelectSeq(NonBlank(logFile.ln), LAMBDA x : x \notin allocFailed)

\* C16: a batch whose processing fails before send_func is called counts as
\* failed: nothing is sent, its lines are written to the temp file and are in
\* the spool when the replay returns, and the read loop goes on, so that the
\* lines after it are batched as well.
C16_InternalFailureKeepsBatch ==
    /\ [][(Len(batchLog') = Len(batchLog) + 1 /\ ~Last(batchLog').called) =>
            /\ ~Last(batchLog').ok
            /\ Last(batchLog').lines = batch
            /\ tmpFile' = [tmpFile EXCEPT !.ln = @ \o batch]
            /\ accepted' = accepted
            /\ anyFailed'
            /\ pc["h"] = "p_batch" => pc'["h"] = "p_read"]_vars
    /\ [](FirstReplayReturns =>
            \A i \in 1..Len(batchLog) :
                ~batchLog[i].called => Elems(batchLog[i].lines) \subseteq Elems(logFile.ln))
    /\ [](FirstReplayRead /\ allocFailed = {} =>
            BatchLines = Cut(NonBlank(logFile.ln), MAX_BATCH_SIZE))

\* C16 witness: the first batch failed before the callback, the second was
\* sent; the replay returns with exactly the first batch's lines in the spool.
C16_Witness ==
    /\ FirstReplayReturns
    /\ Len(batchLog) = 2
    /\ ~batchLog[1].called /\ ~batchLog[1].ok
    /\ batchLog[2].called /\ batchLog[2].ok
    /\ logFile = [ex |-> TRUE, ln |-> batchLog[1].lines]
    /\ tmpFile = NoFile

\* C17: every batch handed to process_batch holds at least one and at most
\* MAX_BATCH_SIZE lines, none of them blank; a batch that is not the last of
\* its replay holds exactly MAX_BATCH_SIZE, and the batch being filled never
\* exceeds it.
C17_BatchBound ==
    /\ [][Len(batchLog') = Len(batchLog) + 1 =>
            LET b == Last(batchLog').lines IN
            /\ Len(b) >= 1 /\ Len(b) <= MAX_BATCH_SIZE
            /\ BLANK \notin Elems(b)
            /\ pc'["h"] # "p_remove" => Len(b) = MAX_BATCH_SIZE]_vars
    /\ [](Len(batch) <= MAX_BATCH_SIZE /\ BLANK \notin Elems(batch))
    /\ [](pc["h"] = "p_read" => Len(batch) < MAX_BATCH_SIZE)

\* C17 witness: a spool with a blank line was replayed as one full batch and
\* a last batch of one line.
C17_Witness ==
    /\ FirstReplayReturns
    /\ BLANK \in Elems(spool0.ln)
    /\ Len(batchLog) = 2
    /\ Len(batchLog[1].lines) = MAX_BATCH_SIZE
    /\ Len(batchLog[2].lines) = 1

\* Records are numbered in the order in which they were written to the spool
\* (the initial file top to bottom, then every append), so file order is the
\* order of the numbers.
Increasing(s) == \A i, j \in 1..Len(s) : i < j => s[i] < s[j]

\* C18: the lines handed to process_batch during a replay are in file order,
\* within a batch and from batch to batch, and the spool file (and the temp
\* file) always holds its lines in their original order, the retained ones
\* ahead of the records appended later.
C18_ReplayOrder ==
    /\ calls["h"] <= 1 => Increasing(Flatten(BatchLines) \o batch)
    /\ Increasing(NonBlank(logFile.ln))
    /\ Increasing(tmpFile.ln)
    /\ (FirstReplayReturns /\ batchLog # <<>>) =>
          logFile.ln = SelectSeq(Flatten(BatchLines), InFailedBatch)

\* C18 witness: of three batches the first and the third failed; their lines
\* are back in the spool in order, followed by a record appended afterwards.
C18_Witness ==
    /\ pc["h"] = "idle" /\ calls["h"] = 1
    /\ Len(batchLog) = 3
    /\ ~batchLog[1].ok /\ batchLog[2].ok /\ ~batchLog[3].ok
    /\ Len(spoolAdds) = 1
    /\ logFile.ln = batchLog[1].lines \o batchLog[3].lines \o <<spoolAdds[1].rec>>

\* C19: enqueue() links its node under the mutex and wakes exactly one of
\* the consumers blocked in the wait, if there is one; a record goes to one
\* consumer only, and a consumer leaves dequeue() only with the head record
\* or, after shutdown, with NULL, so the consumers that got nothing stay
\* blocked.  The producer never joins the waiters: the only thing enqueue()
\* waits for is the mutex, and once it holds it the link step can be taken.
C19_EnqueueWakesOne ==
    /\ [][\A p \in Producers :
            (pc[p] = "enq_link" /\ pc'[p] # "enq_link") =>
                /\ qHead' = Append(qHead, arg[p])
                /\ waiters' \subseteq waiters
                /\ Cardinality(waiters') =
                      IF waiters = {} THEN 0 ELSE Cardinality(waiters) - 1
                /\ mutex' = NOBODY]_vars
    /\ [][\A c \in Consumers :
            (InDequeue(c) /\ pc'[c] = "dq_ret") =>
                \/ ret'[c] # NULL /\ ret'[c] = Head(qHead)
                \/ qShutdown /\ qHead = <<>>]_vars
    /\ [](NoDup(deqLog) /\ Len(deqLog) <= Len(enqLog))
    /\ [](\A p \in Producers :
            /\ p \notin waiters
            /\ (pc[p] = "enq_lock" /\ mutex = NOBODY) => ENABLED EnqLock(p)
            /\ pc[p] = "enq_link" => (mutex = p /\ ENABLED EnqLink(p)))

\* C19 witness: one record was enqueued on a queue that is not shut down;
\* one consumer has returned with it, the other is still blocked in the wait.
C19_Witness ==
    /\ ~qShutdown /\ enqLog = <<1>> /\ qHead = <<>>
    /\ pc["c1"] = "dq_ret" /\ ret["c1"] = 1 /\ calls["c1"] = 1
    /\ pc["c2"] = "dq_wait" /\ "c2" \in waiters /\ calls["c2"] = 1

(***************************************************************************)
(* Properties of the replay thread                                         *)
(***************************************************************************)

Calls(op) == lpCall'.op = op
FieldOps == {"lp_add_field_double", "lp_add_field_integer", "lp_add_field_string",
             "lp_add_field_boolean"}

\* C21: on a builder to which a field has been added, lp_add_tag returns
\* LP_ERROR_INVALID_STATE whatever the key and the value, also for a key that
\* is not a valid tag key, and the builder is left as it was.
C21_TagAfterFieldIsInvalidState ==
    [][(Calls("lp_add_tag") /\ builder.has_fields)
            => (lpCall'.err = LP_ERROR_INVALID_STATE /\ builder' = builder)]_vars

\* C21 witness: a tag with a malformed key was refused with INVALID_STATE on an
\* open (not finalized) builder that has a field.
C21_Witness ==
    /\ lpCall.op = "lp_add_tag"
    /\ ~lp_is_valid_tag_key(lpCall.key)
    /\ builder.has_fields
    /\ ~builder.finalized
    /\ lpCall.err = LP_ERROR_INVALID_STATE

\* C22 as stated: lp_add_field_double with NaN or an infinity returns
\* LP_ERROR_INVALID_PARAM and leaves the builder as it was.
C22_NonFiniteIsInvalidParam ==
    [][(Calls("lp_add_field_double") /\ (isnan(lpCall'.value) \/ isinf(lpCall'.value)))
            => (lpCall'.err = LP_ERROR_INVALID_PARAM /\ builder' = builder)]_vars

\* C22 amended: with NaN or an infinity lp_add_field_double always fails and
\* leaves the builder as it was; the error is LP_ERROR_INVALID_PARAM when the
\* builder is open, has a measurement and the key is a valid field key, and the
\* error of the earlier check (INVALID_STATE, INVALID_FIELD_KEY) otherwise.
C22_NonFiniteIsRefused ==
    [][(Calls("lp_add_field_double") /\ (isnan(lpCall'.value) \/ isinf(lpCall'.value)))
            => /\ builder' = builder
               /\ lpCall'.err = IF builder.finalized \/ ~builder.has_measurement
                                THEN LP_ERROR_INVALID_STATE
                                ELSE IF ~lp_is_valid_field_key(lpCall'.key)
                                THEN LP_ERROR_INVALID_FIELD_KEY
                                ELSE LP_ERROR_INVALID_PARAM]_vars

\* C22 witness: an infinity was refused with INVALID_PARAM as the first field
\* of a record, and has_fields is still false.
C22_Witness ==
    /\ lpCall.op = "lp_add_field_double"
    /\ isinf(lpCall.value)
    /\ lpCall.err = LP_ERROR_INVALID_PARAM
    /\ builder.has_measurement
    /\ ~builder.has_fields

\* the record is incomplete: no measurement, or no field
Incomplete(b) == ~b.has_measurement \/ ~b.has_fields

\* C23: lp_copy and lp_view return no result (NULL) when the builder has no
\* measurement or no field.  (Neither call changes has_measurement or
\* has_fields, so the flags after the call are the flags before it.)
C23_IncompleteHasNoResult ==
    (lpCall.op \in {"lp_copy", "lp_view"} /\ Incomplete(builder)) => lpCall.ptr.null


\* the calls that write into the record
Mutators == FieldOps \cup {"lp_set_measurement", "lp_add_tag", "lp_set_timestamp"}

\* C24: once lp_copy has returned a record the builder is finalized; on a
\* finalized builder lp_set_measurement, lp_add_tag, every lp_add_field_* and
\* lp_set_timestamp return LP_ERROR_INVALID_STATE and leave the builder as it
\* was; only lp_builder_reset ends this, and it leaves the builder as
\* lp_builder_create made it (same capacity), ready for a new record.
C24_FinalizedIsImmutable ==
    [][/\ (Calls("lp_copy") /\ ~lpCall'.ptr.null) => builder'.finalized
       /\ (builder.finalized /\ lpCall'.op \in Mutators)
            => (lpCall'.err = LP_ERROR_INVALID_STATE /\ builder' = builder)
       /\ (builder.finalized /\ ~builder'.finalized) => Calls("lp_builder_reset")
       /\ Calls("lp_builder_reset")
            => builder' = [NoBuilder EXCEPT !.capacity = builder.capacity]]_vars

\* C24 witness: after a copy was handed out, lp_set_measurement with a valid
\* name was refused with INVALID_STATE.
C24_Witness ==
    /\ builder.finalized
    /\ lpCall.op = "lp_set_measurement"
    /\ lpCall.value = <<"m">>
    /\ lpCall.err = LP_ERROR_INVALID_STATE

\* C25: lp_set_timestamp succeeds only on a builder that has a measurement and
\* a field; without one of them it returns LP_ERROR_INVALID_STATE and leaves
\* the builder (buffer, has_timestamp) as it was.
C25_TimestampNeedsFields ==
    [][Calls("lp_set_timestamp")
            => /\ lpCall'.err = LP_SUCCESS
                    => (builder.has_measurement /\ builder.has_fields)
               /\ Incomplete(builder)
                    => (lpCall'.err = LP_ERROR_INVALID_STATE /\ builder' = builder)]_vars

\* C25 witness: lp_set_timestamp was refused on an open builder that has a
\* measurement (and a tag or not) but no field.
C25_Witness ==
    /\ lpCall.op = "lp_set_timestamp"
    /\ lpCall.err = LP_ERROR_INVALID_STATE
    /\ builder.has_measurement
    /\ ~builder.has_fields
    /\ ~builder.finalized
    /\ ~builder.has_timestamp


\* ---- the wire format, read from a string ----

\* the pieces of s between the occurrences of the character c
RECURSIVE SplitOn(_, _)
SplitOn(s, c) ==
    IF \A i \in 1..Len(s) : s[i] # c THEN <<s>>
    ELSE LET p == CHOOSE i \in 1..Len(s) : s[i] = c /\ \A j \in 1..(i - 1) : s[j] # c
         IN  <<SubSeq(s, 1, p - 1)>> \o SplitOn(SubSeq(s, p + 1, Len(s)), c)

IsDigit(c) == \E d \in 1..10 : c = Digits[d]
IsNumber(s) ==
    LET t == IF s # <<>> /\ s[1] = "-" THEN Tail(s) ELSE s
    IN  t # <<>> /\ \A i \in 1..Len(t) : IsDigit(t[i])
\* the rule the specification gives for measurement names
NameRule(name) ==
    /\ name # <<>>
    /\ name[1] # "_"
    /\ \A i \in 1..Len(name) :
            name[i] \in Letters \/ IsDigit(name[i]) \/ name[i] \in {"_", "-", "."}
\* the rule the specification gives for tag keys and field keys
KeyRule(key) ==
    /\ key # <<>>
    /\ \A i \in 1..Len(key) : key[i] \in Letters \/ IsDigit(key[i]) \/ key[i] = "_"

\* a field value as one of the four lp_add_field_* writes it
IsFieldValue(v) ==
    \/ v \in {<<"t", "r", "u", "e">>, <<"f", "a", "l", "s", "e">>}
    \/ Len(v) >= 2 /\ v[Len(v)] = "i" /\ IsNumber(SubSeq(v, 1, Len(v) - 1))
    \/ Len(v) >= 2 /\ v[1] = "\"" /\ v[Len(v)] = "\""
    \/ \E p \in 1..Len(v) : /\ v[p] = "."
                            /\ IsNumber(SubSeq(v, 1, p - 1))
                            /\ Len(v) = p + 6
                            /\ \A i \in (p + 1)..Len(v) : IsDigit(v[i])

\* key=value, the key obeying the key rule, the value obeying ok
IsPair(s, ok(_)) ==
    \E p \in 1..Len(s) : /\ s[p] = "="
                         /\ KeyRule(SubSeq(s, 1, p - 1))
                         /\ ok(SubSeq(s, p + 1, Len(s)))

\* measurement{,tag=value}
IsHead(s) ==
    LET parts == SplitOn(s, ",")
    IN  /\ NameRule(parts[1])
        /\ \A i \in 2..Len(parts) : IsPair(parts[i], LAMBDA v : TRUE)

\* field{,field}
IsFieldSet(s) ==
    LET parts == SplitOn(s, ",")
    IN  \A i \in 1..Len(parts) : IsPair(parts[i], IsFieldValue)

\* measurement{,tag=value} SP field{,field} SP timestamp, for some choice of the
\* two separating spaces
WireFormat(r) ==
    \E i, j \in 1..Len(r) :
        /\ i < j
        /\ r[i] = " "
        /\ r[j] = " "
        /\ IsHead(SubSeq(r, 1, i - 1))
        /\ IsFieldSet(SubSeq(r, i + 1, j - 1))
        /\ IsNumber(SubSeq(r, j + 1, Len(r)))

\* C26: every record lp_copy returns has the wire format: the measurement,
\* the tags, one space, at least one field, one space, and one timestamp last
\* (so no field and no second timestamp follows a timestamp).
C26_WireFormatValid ==
    (lpCall.op = "lp_copy" /\ ~lpCall.ptr.null) => WireFormat(lpCall.ptr.str)

\* C27: lp_copy on a complete record without timestamp appends a space and the
\* current time, once, and hands out the record with it; on a record that has
\* a timestamp (set by the caller, or by an earlier lp_copy) it appends nothing
\* and hands out the buffer as it is.
C27_AutomaticTimestamp ==
    [][Calls("lp_copy")
        => LET stamped == builder.buffer \o <<" ">> \o FormatInt(lpCall'.value)
           IN  /\ (builder.has_timestamp \/ builder.finalized)
                    => builder'.buffer = builder.buffer
               /\ ~lpCall'.ptr.null
                    => /\ lpCall'.ptr.str = builder'.buffer
                       /\ builder'.buffer = IF builder.has_timestamp THEN builder.buffer
                                            ELSE stamped
                       /\ builder'.has_timestamp
               /\ builder'.buffer \in {builder.buffer, stamped}]_vars

\* C27 witness: lp_copy returned a record to which it added the current time.
C27_Witness ==
    /\ lpCall.op = "lp_copy"
    /\ ~lpCall.ptr.null
    /\ builder.position = lpCall.pos0 + 1 + Len(FormatInt(lpCall.value))
    /\ builder.position > 0
    /\ SubSeq(builder.buffer, lpCall.pos0 + 1, builder.position)
            = <<" ">> \o FormatInt(lpCall.value)


\* the flags and marks of a record that consists of a measurement only
OnlyMeasurement(b, name) ==
    /\ b.buffer = name
    /\ b.position = Len(name)
    /\ b.has_measurement
    /\ ~b.has_fields
    /\ ~b.has_timestamp
    /\ ~b.finalized
    /\ b.tags_end = Len(name)

\* C28 as stated: on a builder that is not finalized lp_set_measurement succeeds
\* exactly when the name obeys the name rule; on success the buffer is the name
\* and nothing of a prior use is left; on a name that breaks the rule it
\* returns LP_ERROR_INVALID_MEASUREMENT and the builder is as it was.
C28_SetMeasurement ==
    [][(Calls("lp_set_measurement") /\ ~builder.finalized)
        => /\ lpCall'.err = LP_SUCCESS <=> NameRule(lpCall'.value)
           /\ lpCall'.err = LP_SUCCESS => OnlyMeasurement(builder', lpCall'.value)
           /\ ~NameRule(lpCall'.value)
                => (lpCall'.err = LP_ERROR_INVALID_MEASUREMENT /\ builder' = builder)]_vars

\* C28 amended: success implies the name obeys the rule; a name that obeys the
\* rule is refused only for want of buffer (LP_ERROR_BUFFER_FULL,
\* LP_ERROR_MEMORY_ALLOC), and never when it fits the capacity the builder
\* has; the rest as stated.
C28_SetMeasurementIfBufferAllows ==
    [][(Calls("lp_set_measurement") /\ ~builder.finalized)
        => /\ lpCall'.err = LP_SUCCESS => NameRule(lpCall'.value)
           /\ NameRule(lpCall'.value)
                => /\ lpCall'.err \in {LP_SUCCESS, LP_ERROR_BUFFER_FULL,
                                       LP_ERROR_MEMORY_ALLOC}
                   /\ Len(lpCall'.value) + 1 <= builder.capacity
                        => lpCall'.err = LP_SUCCESS
           /\ lpCall'.err = LP_SUCCESS => OnlyMeasurement(builder', lpCall'.value)
           /\ ~NameRule(lpCall'.value)
                => (lpCall'.err = LP_ERROR_INVALID_MEASUREMENT /\ builder' = builder)]_vars

\* C28 witness: lp_set_measurement succeeded on a builder that held a partial
\* record longer than the new name, and only the name is left.
C28_Witness ==
    /\ lpCall.op = "lp_set_measurement"
    /\ lpCall.err = LP_SUCCESS
    /\ lpCall.pos0 > Len(lpCall.value)
    /\ OnlyMeasurement(builder, lpCall.value)


\* the value of the call is a number that lp_add_field_double refuses
RefusedValue(c) == c.op = "lp_add_field_double" /\ (isnan(c.value) \/ isinf(c.value))

\* C29 as stated: with a measurement set, lp_add_field_* with a key that breaks
\* the key rule returns LP_ERROR_INVALID_FIELD_KEY, and lp_add_tag before any
\* field with such a key returns LP_ERROR_INVALID_TAG_KEY, the buffer unchanged
\* in both cases; a key that obeys the rule is accepted (never refused as a
\* key); lp_add_field_* without a measurement is refused.
C29_KeyValidation ==
    [][/\ (lpCall'.op \in FieldOps /\ builder.has_measurement /\ ~KeyRule(lpCall'.key))
            => (lpCall'.err = LP_ERROR_INVALID_FIELD_KEY /\ builder' = builder)
       /\ (Calls("lp_add_tag") /\ builder.has_measurement /\ ~builder.has_fields
                /\ ~KeyRule(lpCall'.key))
            => (lpCall'.err = LP_ERROR_INVALID_TAG_KEY /\ builder' = builder)
       /\ (lpCall'.op \in FieldOps \cup {"lp_add_tag"} /\ KeyRule(lpCall'.key))
            => lpCall'.err \notin {LP_ERROR_INVALID_FIELD_KEY, LP_ERROR_INVALID_TAG_KEY}
       /\ (lpCall'.op \in FieldOps /\ ~builder.has_measurement)
            => (lpCall'.err # LP_SUCCESS /\ builder' = builder)]_vars

\* C29 amended: the same on a builder that is not finalized (a finalized one
\* answers LP_ERROR_INVALID_STATE first); and on such a builder a field with a
\* key that obeys the rule and a value that is not refused is appended, as is
\* a tag before any field, unless the buffer cannot take it
\* (LP_ERROR_BUFFER_FULL, LP_ERROR_MEMORY_ALLOC).
C29_KeyValidationIfOpen ==
    [][/\ (lpCall'.op \in FieldOps /\ builder.has_measurement /\ ~builder.finalized
                /\ ~KeyRule(lpCall'.key))
            => (lpCall'.err = LP_ERROR_INVALID_FIELD_KEY /\ builder' = builder)
       /\ (Calls("lp_add_tag") /\ builder.has_measurement /\ ~builder.has_fields
                /\ ~KeyRule(lpCall'.key))
            => (lpCall'.err = LP_ERROR_INVALID_TAG_KEY /\ builder' = builder)
       /\ (lpCall'.op \in FieldOps \cup {"lp_add_tag"} /\ KeyRule(lpCall'.key))
            => lpCall'.err \notin {LP_ERROR_INVALID_FIELD_KEY, LP_ERROR_INVALID_TAG_KEY}
       /\ (lpCall'.op \in FieldOps \cup {"lp_add_tag"} /\ KeyRule(lpCall'.key)
                /\ builder.has_measurement /\ ~builder.finalized
                /\ (Calls("lp_add_tag") => ~builder.has_fields)
                /\ ~RefusedValue(lpCall'))
            => /\ lpCall'.err \in {LP_SUCCESS, LP_ERROR_BUFFER_FULL, LP_ERROR_MEMORY_ALLOC}
               /\ lpCall'.err = LP_SUCCESS
                    => /\ IsPrefix(builder.buffer, builder'.buffer)
                       /\ builder'.position > builder.position + Len(lpCall'.key)
                       /\ lpCall'.op \in FieldOps => builder'.has_fields
       /\ (lpCall'.op \in FieldOps /\ ~builder.has_measurement)
            => (lpCall'.err # LP_SUCCESS /\ builder' = builder)]_vars

\* C29 witness: a field whose key has a character outside the rule was refused
\* with INVALID_FIELD_KEY on an open builder that has a measurement and a field.
C29_Witness ==
    /\ lpCall.op \in FieldOps
    /\ lpCall.key = <<"k", "-">>
    /\ lpCall.err = LP_ERROR_INVALID_FIELD_KEY
    /\ builder.has_measurement
    /\ builder.has_fields
    /\ ~builder.finalized

\* what a reader of the line protocol does with a quoted string: a backslash
\* stands for the character after it
RECURSIVE Unescape(_)
Unescape(s) ==
    IF s = <<>> THEN <<>>
    ELSE IF s[1] = "\\" /\ Len(s) >= 2 THEN <<s[2]>> \o Unescape(SubSeq(s, 3, Len(s)))
    ELSE <<s[1]>> \o Unescape(Tail(s))

Special(c) == c = "\"" \/ c = "\\"
\* out is s with one backslash put before each quote and each backslash, and
\* nothing else added, changed or dropped
RECURSIVE EscapedOnce(_, _)
EscapedOnce(s, out) ==
    IF s = <<>> THEN out = <<>>
    ELSE IF Special(s[1])
    THEN Len(out) >= 2 /\ out[1] = "\\" /\ out[2] = s[1]
         /\ EscapedOnce(Tail(s), SubSeq(out, 3, Len(out)))
    ELSE Len(out) >= 1 /\ out[1] = s[1] /\ EscapedOnce(Tail(s), Tail(out))

\* C30: the escaped form of a string field value has exactly one backslash
\* before every quote and every backslash of the value and every other
\* character as it was, and un-escaping it gives the value back.
C30_EscapeRoundTrip ==
    (lpCall.op = "escape_string" /\ ~lpCall.ptr.null)
        => /\ EscapedOnce(lpCall.value, lpCall.ptr.str)
           /\ Unescape(lpCall.ptr.str) = lpCall.value

\* C30 witness: a value of full length with a quote, a backslash and a plain
\* character has been escaped.
C30_Witness ==
    /\ lpCall.op = "escape_string"
    /\ ~lpCall.ptr.null
    /\ Len(lpCall.value) = MaxStrLen
    /\ \E i, j, k \in 1..Len(lpCall.value) :
            lpCall.value[i] = "\"" /\ lpCall.value[j] = "\\" /\ lpCall.value[k] = "s"
    /\ Len(lpCall.ptr.str) > Len(lpCall.value)

(***************************************************************************)
(* Reading a record back by splitting it on the documented delimiters      *)
(***************************************************************************)

DigitValue(c) == (CHOOSE d \in 1..10 : Digits[d] = c) - 1
RECURSIVE ReadNat(_)
ReadNat(s) == IF s = <<>> THEN 0
              ELSE ReadNat(SubSeq(s, 1, Len(s) - 1)) * 10 + DigitValue(s[Len(s)])
ReadInt(s) == IF s[1] = "-" THEN 0 - ReadNat(Tail(s)) ELSE ReadNat(s)

\* key=value split at its first '='
KeyOf(pair) == SplitOn(pair, "=")[1]
ValueOf(pair) == SubSeq(pair, Len(KeyOf(pair)) + 2, Len(pair))

\* the text of a field value reads as the value f that was passed in
ReadsAs(text, f) ==
    CASE f.kind = "double" ->
            \E p \in 1..Len(text) :
                /\ text[p] = "."
                /\ IsNumber(SubSeq(text, 1, p - 1))
                /\ ReadInt(SubSeq(text, 1, p - 1)) = f.value.n
                /\ \A i \in (p + 1)..Len(text) : text[i] = "0"
      [] f.kind = "integer" ->
            /\ Len(text) >= 2
            /\ text[Len(text)] = "i"
            /\ IsNumber(SubSeq(text, 1, Len(text) - 1))
            /\ ReadInt(SubSeq(text, 1, Len(text) - 1)) = f.value
      [] f.kind = "string" ->
            /\ Len(text) >= 2
            /\ text[1] = "\""
            /\ text[Len(text)] = "\""
            /\ Unescape(SubSeq(text, 2, Len(text) - 1)) = f.value
      [] f.kind = "boolean" -> text = FormatBool(f.value)

\* r split on spaces, commas and '=' gives back exactly what p says was passed in
RoundTrip(r, p) ==
    LET sections == SplitOn(r, " ")
    IN  /\ Len(sections) = 3
        /\ LET head == SplitOn(sections[1], ",")
               fields == SplitOn(sections[2], ",")
           IN  /\ head[1] = p.measurement
               /\ Len(head) = 1 + Len(p.tags)
               /\ \A i \in 1..Len(p.tags) :
                    /\ KeyOf(head[i + 1]) = p.tags[i][1]
                    /\ ValueOf(head[i + 1]) = p.tags[i][2]
               /\ Len(fields) = Len(p.fields)
               /\ \A i \in 1..Len(p.fields) :
                    /\ KeyOf(fields[i]) = p.fields[i].key
                    /\ ReadsAs(ValueOf(fields[i]), p.fields[i])
               /\ IsNumber(sections[3])
               /\ p.timestamps = <<ReadInt(sections[3])>>

\* C31: the record lp_copy returns, split on the documented delimiters, gives
\* back the measurement, the tags, the fields and the timestamp that the
\* successful calls were given (calls made in the documented order: nothing
\* accepted after a timestamp).
C31_RecordRoundTrip ==
    (lpCall.op = "lp_copy" /\ ~lpCall.ptr.null /\ ~passed.late)
        => RoundTrip(lpCall.ptr.str, passed)

\* the same for records none of whose tag values holds a space
C31_RoundTripOfPlainTagValues ==
    (/\ lpCall.op = "lp_copy"
     /\ ~lpCall.ptr.null
     /\ ~passed.late
     /\ \A i \in 1..Len(passed.tags) : \A j \in 1..Len(passed.tags[i][2]) :
            passed.tags[i][2][j] # " ")
        => RoundTrip(lpCall.ptr.str, passed)

\* the buffer contents, the length and the four state flags of a builder
Record(b) == <<b.buffer, b.position, b.has_measurement, b.has_fields, b.has_timestamp,
               b.finalized>>

\* C38: a builder call that returns an error code (lp_set_measurement,
\* lp_add_tag, lp_add_field_*, lp_set_timestamp), and an lp_copy that returns
\* NULL, leaves the buffer contents, the length and the flags has_measurement,
\* has_fields, has_timestamp and finalized as they were before the call.
C38_NoPartialEffectOnError ==
    [][/\ (lpCall'.op \in Mutators /\ lpCall'.err # LP_SUCCESS)
            => Record(builder') = Record(builder)
       /\ (Calls("lp_copy") /\ lpCall'.ptr.null)
            => Record(builder') = Record(builder)]_vars

\* C38 for the calls other than lp_set_measurement and lp_copy
C38_NoPartialEffectOfAdds ==
    [][(lpCall'.op \in Mutators \ {"lp_set_measurement"} /\ lpCall'.err # LP_SUCCESS)
            => Record(builder') = Record(builder)]_vars

\* C38 for lp_copy alone
C38_NoPartialEffectOfCopy ==
    [][(Calls("lp_copy") /\ lpCall'.ptr.null) => Record(builder') = Record(builder)]_vars

\* the number of characters a call asks to append, and where it appends them
AppendLen(c) ==
    CASE c.op = "lp_set_measurement" -> Len(c.value)
      [] c.op = "lp_add_tag" -> 1 + Len(c.key) + 1 + Len(c.value)
      [] c.op = "lp_add_field_double" -> 1 + Len(c.key) + 1 + Len(FormatDouble(c.value))
      [] c.op = "lp_add_field_integer" -> 1 + Len(c.key) + 1 + Len(FormatInt(c.value)) + 1
      [] c.op = "lp_add_field_string" ->
            1 + Len(c.key) + 1 + 1 + Len(escape_string(c.value)) + 1
      [] c.op = "lp_add_field_boolean" -> 1 + Len(c.key) + 1 + Len(FormatBool(c.value))
      [] c.op = "lp_set_timestamp" -> 1 + Len(FormatInt(c.value))
AppendAt(c) == IF c.op = "lp_set_measurement" THEN 0 ELSE c.pos0

\* C33: an append whose resulting length plus the terminator is at most
\* LP_MAX_CAPACITY never fails with LP_ERROR_BUFFER_FULL, whatever capacity the
\* builder was created with.
C33_GrowthFailsOnlyBeyondCap ==
    [][(lpCall'.op \in Mutators /\ lpCall'.err = LP_ERROR_BUFFER_FULL)
            => AppendAt(lpCall') + AppendLen(lpCall') + 1 > LP_MAX_CAPACITY]_vars

\* the capacities the doubling reaches from LP_MIN_CAPACITY
RECURSIVE Doublings(_)
Doublings(c) == IF c > LP_MAX_CAPACITY THEN {} ELSE {c} \cup Doublings(c * LP_GROWTH_FACTOR)

\* C33 for a builder whose capacity is LP_MIN_CAPACITY doubled some number of
\* times (every power of two from 64 to 1 MiB in the program)
C33_GrowthOfDoubledMinimum ==
    [][(/\ lpCall'.op \in Mutators
        /\ lpCall'.err = LP_ERROR_BUFFER_FULL
        /\ builder.capacity \in Doublings(LP_MIN_CAPACITY))
            => AppendAt(lpCall') + AppendLen(lpCall') + 1 > LP_MAX_CAPACITY]_vars

\* C32: a builder's capacity is between LP_MIN_CAPACITY and LP_MAX_CAPACITY
\* and its length plus the terminator fits the capacity.
C32_CapacityBounds ==
    builder # NoBuilder
        => /\ LP_MIN_CAPACITY <= builder.capacity
           /\ builder.capacity <= LP_MAX_CAPACITY
           /\ builder.position = Len(builder.buffer)
           /\ builder.position + 1 <= builder.capacity

\* the capacities c doubled once or more
RECURSIVE DoubledFrom(_)
DoubledFrom(c) ==
    IF c * LP_GROWTH_FACTOR > LP_MAX_CAPACITY THEN {}
    ELSE {c * LP_GROWTH_FACTOR} \cup DoubledFrom(c * LP_GROWTH_FACTOR)

\* C32: the capacity changes only by doubling, once or more; an append that
\* needs a capacity above LP_MAX_CAPACITY fails with LP_ERROR_BUFFER_FULL, and
\* a call that fails so leaves the capacity, and the buffer and the length the
\* append found (for lp_set_measurement the emptied buffer), unchanged.
C32_GrowthByDoubling ==
    [][/\ builder'.capacity # builder.capacity
            => builder'.capacity \in DoubledFrom(builder.capacity)
       /\ (/\ lpCall'.op \in Mutators
           /\ lpCall'.err \in {LP_SUCCESS, LP_ERROR_MEMORY_ALLOC}
           /\ AppendAt(lpCall') + AppendLen(lpCall') + 1 > LP_MAX_CAPACITY)
            => (Calls("lp_add_field_string") /\ builder' = builder)
       /\ (lpCall'.op \in Mutators /\ lpCall'.err = LP_ERROR_BUFFER_FULL)
            => /\ builder'.capacity = builder.capacity
               /\ builder'.position = AppendAt(lpCall')
               /\ builder'.buffer = SubSeq(builder.buffer, 1, AppendAt(lpCall'))
               /\ AppendAt(lpCall') + AppendLen(lpCall') + 1 > builder.capacity]_vars

\* C32: in every reachable builder state the capacity is between
\* LP_MIN_CAPACITY and LP_MAX_CAPACITY and the length plus one fits it; the
\* capacity grows only by doubling; an append that needs more than
\* LP_MAX_CAPACITY fails with LP_ERROR_BUFFER_FULL and changes nothing.
C32_BufferBound == []C32_CapacityBounds /\ C32_GrowthByDoubling

\* C32 witness: a field did not fit a buffer grown to LP_MAX_CAPACITY and was
\* refused with LP_ERROR_BUFFER_FULL.
C32_Witness ==
    /\ lpCall.op \in FieldOps
    /\ lpCall.err = LP_ERROR_BUFFER_FULL
    /\ builder.capacity = LP_MAX_CAPACITY
    /\ builder.position > 0
    /\ lpCall.pos0 + AppendLen(lpCall) + 1 > LP_MAX_CAPACITY

\* C39: whenever the queue's shutdown flag is set, is_running is already false
\* (on the sender_destroy path and on the thread-creation failure path).
C39_ShutdownImpliesStopped == qShutdown => ~is_running

\* C39: the drain thread that gets NULL from data_queue_dequeue terminates; it
\* does not go back to dequeue.
C39_NullEndsDrain ==
    [][(pc["drain"] = "dq_ret" /\ ret["drain"] = NULL /\ pc'["drain"] # "dq_ret")
            => pc'["drain"] = "done"]_vars

\* C39: in every reachable state where the queue's shutdown flag is set
\* is_running is false, on the thread-creation failure path too, so the drain
\* thread that gets NULL from dequeue terminates and does not call it again.
C39_DrainExitsOnNoMoreData == []C39_ShutdownImpliesStopped /\ C39_NullEndsDrain

\* C39 witness: on the thread-creation failure path the drain thread has just
\* got NULL from dequeue on the shut-down queue.
C39_Witness ==
    /\ ctxRet = "pending"
    /\ qShutdown
    /\ pc["drain"] = "dq_ret"
    /\ ret["drain"] = NULL

\* the positions of offline_queue_process before its read loop
BeforeReadLoop == {"p_open", "p_tmp", "p_abandon"}

\* C40: a replay whose temporary file could not be opened is abandoned: it
\* returns at once, no line is read and the callback is not invoked (reading
\* and sending happen only with the temporary file open), and the spool file
\* and the temporary file are left as they were.
C40_TmpOpenFailureAbandons ==
    /\ [](pc["h"] \in {"p_read", "p_batch", "p_rest"} => tmpFile.ex)
    /\ [](pc["h"] = "p_abandon" => (rdPos = 0 /\ batch = <<>>))
    /\ [][pc["h"] \in BeforeReadLoop => UNCHANGED <<logFile, batchLog, attempts>>]_vars
    /\ [][pc["h"] = "p_abandon" => (pc'["h"] = "p_done" /\ UNCHANGED tmpFile)]_vars

\* C40 witness: the first replay found records in the spool, could not open the
\* temporary file and is about to return, the spool as the run found it.
C40_Witness ==
    /\ pc["h"] = "p_abandon"
    /\ calls["h"] = 1
    /\ Len(logFile.ln) >= 2
    /\ logFile = spool0
    /\ ~tmpFile.ex
    /\ batchLog = <<>>

\* the lines of the spool file the replay in progress has not read: when no
\* allocation failed, the read loop ended at the end of the file and they were
\* appended after that
UnreadLines == {logFile.ln[i] : i \in (rdPos + 1)..Len(logFile.ln)}

\* the records the drain thread appended to the spool
DrainSpooled == {spoolAdds[i].rec : i \in {j \in 1..Len(spoolAdds) : spoolAdds[j].by = "drain"}}

\* C35: a record appended to the spool while a replay is in progress is not
\* lost: the replay's remove and rename of the spool file keep every line it
\* has not read (a line it has not read is in no batch, so only the spool can
\* hold it).
C35_AppendDuringReplayNotLost ==
    [][(pc["replay"] \in {"p_remove", "p_rename"} /\ logFile' # logFile /\ allocFailed = {})
            => \A r \in UnreadLines \cap DrainSpooled : r \in Elems(logFile'.ln)]_vars

\* C37: every string data_publisher_publish passes to sender_submit holds a
\* measurement, at least one field and a timestamp; when no field could be
\* added it submits nothing and returns false (in calls where no allocation
\* fails).
C37_PublishesOnlyCompleteRecords ==
    (lpCall.op = "data_publisher_publish" /\ lpCall.value.reallocOk)
        => /\ ~lpCall.ptr.null => WireFormat(lpCall.ptr.str)
           /\ ~builder.has_fields => (lpCall.ptr.null /\ lpCall.err # LP_SUCCESS)

\* the records published with at least one field in them are complete
C37_CompleteIfAFieldWasAdded ==
    (lpCall.op = "data_publisher_publish" /\ ~lpCall.ptr.null /\ builder.has_fields)
        => WireFormat(lpCall.ptr.str)

\* the lines a replay reads are the records appended, one line each, each
\* followed by its newline
ReadBackAsWritten(c) == c.ptr.str = [i \in 1..Len(c.value) |-> c.value[i] \o <<"\n">>]

\* C36: every record appended to the spool is read back by the replay as one
\* line whose content is the record, whatever the record's length.
C36_SpoolRoundTrip == lpCall.op = "offline_queue_process" => ReadBackAsWritten(lpCall)

\* the same for records shorter than the read buffer
C36_RoundTripOfShortRecords ==
    (/\ lpCall.op = "offline_queue_process"
     /\ \A i \in 1..Len(lpCall.value) : Len(lpCall.value[i]) < MAX_LINE_LENGTH)
        => ReadBackAsWritten(lpCall)

\* sender_destroy has cleared is_running on a running orchestrator and is about
\* to signal the queue shutdown
DestroyStarted == pc["main"] = "sh_lock" /\ ctxRet = "ctx"

=============================================================================
